---- MODULE Spec2Model ----
(***************************************************************************)
(* Model of the prediction ledger of the Trading Predictor                 *)
(* (src/utils/prediction_logger.py, class PredictionLogger) and of its     *)
(* ensemble forecaster (src/models/predictor.py, class StockPredictor).    *)
(*                                                                         *)
(* The ledger is the file predictions_history.csv: a sequence of rows.     *)
(* Units used by the model:                                                *)
(*   - time: whole hours since the start of the run (datetime.now());      *)
(*   - prices: quarter ticks, one tick being 0.0001 of the currency, so    *)
(*     that round(price, 4) is a real rounding (PriceUnit per currency     *)
(*     unit);                                                              *)
(*   - percentages: hundredths of a percent, the precision round(x, 2)     *)
(*     stores.                                                             *)
(* An optional cell (None / NaN / empty CSV cell) is the empty sequence    *)
(* and a present value v is <<v>>.  A horizon string is the sequence of    *)
(* its characters.  Symbols and stock names are the watch-list's strings,  *)
(* which pandas reads back from the CSV file as written.  Prices and       *)
(* quotes are finite; quotes are positive (get_stock_quote).  Arithmetic   *)
(* is exact, with ties of a rounding going to the even neighbour.          *)
(***************************************************************************)
EXTENDS Integers, Sequences, FiniteSets, TLC

VARIABLES ledger, now, ret

(* The fields of the StockPredictor object *)
VARIABLES scaler, prophet_model, rf_model, is_trained

predictorVars == <<scaler, prophet_model, rf_model, is_trained>>

(* The header line of predictions_history.csv (ledger holds its rows), and *)
(* for each writer of the file the frame it has read and not yet written   *)
(* back                                                                    *)
VARIABLES columns, inflight

fileVars == <<columns, inflight>>

(* st.session_state of one browser session and the position of the         *)
(* dashboard script in it                                                  *)
VARIABLES session

vars == <<ledger, now, ret, scaler, prophet_model, rf_model, is_trained,
          columns, inflight, session>>

-----------------------------------------------------------------------------
(* Bounds of the model *)

MaxRecords == 2
MaxTime == 25
TickHours == 12

(* Program and library constants *)

PriceUnit == 40000
HoursPerDay == 24
DatetimeMaxHours == 69891287

-----------------------------------------------------------------------------
(* Optional values *)

None == <<>>

Some(v) == <<v>>

IsNone(o) == o = <<>>

Val(o) == o[1]

-----------------------------------------------------------------------------
(* Arithmetic helpers *)

AbsI(x) == IF x < 0 THEN -x ELSE x

RECURSIVE SumSeq(_)
SumSeq(s) == IF s = <<>> THEN 0 ELSE Head(s) + SumSeq(Tail(s))

(* x / d rounded to the nearest integer, ties to the even one; x >= 0, d > 0 *)
RoundHalfEven(x, d) ==
    LET fl == x \div d
        rem == x % d
    IN  IF 2 * rem < d THEN fl
        ELSE IF 2 * rem > d THEN fl + 1
        ELSE IF fl % 2 = 0 THEN fl ELSE fl + 1

(* round(price, 4): a price in quarter ticks rounded to a whole tick *)
Round4(x) == 4 * RoundHalfEven(x, 4)

(* round((n / d) * 100, 2) in hundredths of a percent, d > 0; the product  *)
(* is taken in two steps of 100 to stay inside 32-bit integers             *)
PctRound2(n, d) ==
    LET an == AbsI(n)
        q == (an * 100) \div d
        r == (an * 100) % d
        v == q * 100 + RoundHalfEven(r * 100, d)
    IN  IF n < 0 THEN -v ELSE v

-----------------------------------------------------------------------------
(* Horizon strings *)

Digits == {"0", "1", "2", "3", "4", "5", "6", "7", "8", "9"}

DigitVal(c) ==
    CASE c = "0" -> 0 [] c = "1" -> 1 [] c = "2" -> 2 [] c = "3" -> 3
      [] c = "4" -> 4 [] c = "5" -> 5 [] c = "6" -> 6 [] c = "7" -> 7
      [] c = "8" -> 8 [] c = "9" -> 9

(* 'ch' in s *)
Contains(s, ch) == \E i \in 1..Len(s) : s[i] = ch

(* s.replace(ch, '') *)
Replace(s, ch) == SelectSeq(s, LAMBDA x : x # ch)

RECURSIVE DigitsValue(_)
DigitsValue(s) ==
    IF s = <<>> THEN 0
    ELSE 10 * DigitsValue(SubSeq(s, 1, Len(s) - 1)) + DigitVal(s[Len(s)])

RECURSIVE StripLeft(_)
StripLeft(s) == IF s # <<>> /\ Head(s) = " " THEN StripLeft(Tail(s)) ELSE s

RECURSIVE StripRight(_)
StripRight(s) ==
    IF s # <<>> /\ s[Len(s)] = " " THEN StripRight(SubSeq(s, 1, Len(s) - 1)) ELSE s

(* int(s): surrounding blanks stripped, an optional sign, then digits      *)
(* with single underscores allowed between them; None stands for the       *)
(* ValueError of any other string                                          *)
ParseInt(s) ==
    LET t == StripRight(StripLeft(s))
        signed == t # <<>> /\ Head(t) \in {"-", "+"}
        body == IF signed THEN Tail(t) ELSE t
        wellFormed ==
            /\ body # <<>>
            /\ \A i \in 1..Len(body) : body[i] \in Digits \cup {"_"}
            /\ body[1] # "_" /\ body[Len(body)] # "_"
            /\ \A i \in 1..(Len(body) - 1) : ~(body[i] = "_" /\ body[i + 1] = "_")
        value == DigitsValue(Replace(body, "_"))
    IN  IF ~wellFormed THEN None
        ELSE IF signed /\ Head(t) = "-" THEN Some(-value)
        ELSE Some(value)

(* A variant that adds the number of a day horizon as hours *)
HorizonOffsetDaysAsHours(horizon) ==
    IF Contains(horizon, "h") \/ Contains(horizon, "d")
    THEN LET n == ParseInt(Replace(Replace(horizon, "h"), "d"))
         IN  IF IsNone(n) THEN [kind |-> "error", hours |-> 0]
             ELSE [kind |-> "ok", hours |-> Val(n)]
    ELSE [kind |-> "warning", hours |-> 0]

(* The offset in hours that log_prediction derives from a horizon string:  *)
(* "warning" for the logged early return, "error" for an exception caught by  *)
(* the handler (ValueError of int), otherwise the hours to add             *)
HorizonOffset(horizon) ==
    IF Contains(horizon, "h")
    THEN LET n == ParseInt(Replace(horizon, "h"))
         IN  IF IsNone(n) THEN [kind |-> "error", hours |-> 0]
             ELSE [kind |-> "ok", hours |-> Val(n)]
    ELSE IF Contains(horizon, "d")
    THEN LET n == ParseInt(Replace(horizon, "d"))
         IN  IF IsNone(n) THEN [kind |-> "error", hours |-> 0]
             ELSE [kind |-> "ok", hours |-> Val(n) * HoursPerDay]
    ELSE [kind |-> "warning", hours |-> 0]

-----------------------------------------------------------------------------
(* Prediction records: the rows of predictions_history.csv *)

(* The columns _initialize_predictions_file writes, in order; the line    *)
(* log_prediction appends (mode 'a', no header) has one value for each    *)
PredictionColumns ==
    << "prediction_timestamp", "symbol", "stock_name", "current_price", "horizon",
       "target_timestamp", "predicted_price", "predicted_change_pct",
       "actual_price", "actual_change_pct", "error_pct", "accuracy_evaluated" >>

(* The columns of pd.concat([a, b]): those of a, then those only b has *)
ConcatColumns(a, b) ==
    a \o SelectSeq(b, LAMBDA c : \A i \in 1..Len(a) : a[i] # c)

(* The row log_prediction builds: the percentage is computed from the      *)
(* prices as passed, the stored prices are rounded to four decimals        *)
PredictionRecord(symbol, stock_name, current_price, horizon, predicted_price, target) ==
    [ prediction_timestamp |-> now,
      symbol               |-> symbol,
      stock_name           |-> stock_name,
      current_price        |-> Round4(current_price),
      horizon              |-> horizon,
      target_timestamp     |-> target,
      predicted_price      |-> Round4(predicted_price),
      predicted_change_pct |-> PctRound2(predicted_price - current_price, current_price),
      actual_price         |-> None,
      actual_change_pct    |-> None,
      error_pct            |-> None,
      accuracy_evaluated   |-> FALSE ]

(* The log line a log_prediction call ends with: "info" after the append,   *)
(* "warning" for the unknown-format return, "error" for an exception the   *)
(* handler caught (ValueError of int, OverflowError of the date addition,  *)
(* ZeroDivisionError of the percentage)                                    *)
LogOutcome(current_price, horizon) ==
    LET off == HorizonOffset(horizon)
    IN  IF off.kind # "ok" THEN off.kind
        ELSE IF now + off.hours > DatetimeMaxHours THEN "error"
        ELSE IF current_price = 0 THEN "error"
        ELSE "info"

LogPrediction(symbol, stock_name, current_price, horizon, predicted_price) ==
    LET outcome == LogOutcome(current_price, horizon)
        target == now + HorizonOffset(horizon).hours
    IN  /\ outcome = "info" => Len(ledger) < MaxRecords
        /\ ledger' = IF outcome = "info"
                     THEN Append(ledger, PredictionRecord(symbol, stock_name,
                                     current_price, horizon, predicted_price, target))
                     ELSE ledger
        /\ ret' = [ op |-> "log_prediction", current_price |-> current_price,
                    horizon |-> horizon, predicted_price |-> predicted_price,
                    log |-> outcome ]
        /\ UNCHANGED <<now, predictorVars, fileVars, session>>

-----------------------------------------------------------------------------
(* Reconciliation *)

(* Variants of the mask: one that forgets the accuracy_evaluated test, one *)
(* that takes the target time strictly in the past                         *)
UpdateMaskIgnoringFlag(df, current_time) ==
    { i \in 1..Len(df) : /\ "target_timestamp" \in DOMAIN df[i]
                         /\ df[i].target_timestamp <= current_time }

UpdateMaskStrictlyPast(df, current_time) ==
    { i \in 1..Len(df) : /\ "target_timestamp" \in DOMAIN df[i]
                         /\ df[i].target_timestamp < current_time
                         /\ df[i].accuracy_evaluated = FALSE }

(* mask = (target_timestamp <= current_time) & (accuracy_evaluated == False); *)
(* a row without these cells (NaT, NaN) compares False                     *)
UpdateMask(df, current_time) ==
    { i \in 1..Len(df) : /\ "target_timestamp" \in DOMAIN df[i]
                         /\ df[i].target_timestamp <= current_time
                         /\ df[i].accuracy_evaluated = FALSE }

(* Variants of the loop body: one that also writes the quote into the      *)
(* current_price column, one that takes the error relative to the current  *)
(* price, one that takes it relative to the predicted price                *)
EvaluateRowOverwritingCurrent(row, actual_price) ==
    [ row EXCEPT
        !.current_price = Round4(actual_price),
        !.actual_price = Some(Round4(actual_price)),
        !.actual_change_pct =
            Some(PctRound2(actual_price - row.current_price, row.current_price)),
        !.error_pct =
            Some(AbsI(PctRound2(actual_price - row.predicted_price, actual_price))),
        !.accuracy_evaluated = TRUE ]

EvaluateRowErrorOverCurrent(row, actual_price) ==
    [ row EXCEPT
        !.actual_price = Some(Round4(actual_price)),
        !.actual_change_pct =
            Some(PctRound2(actual_price - row.current_price, row.current_price)),
        !.error_pct =
            Some(AbsI(PctRound2(actual_price - row.predicted_price, row.current_price))),
        !.accuracy_evaluated = TRUE ]

EvaluateRowErrorOverPredicted(row, actual_price) ==
    [ row EXCEPT
        !.actual_price = Some(Round4(actual_price)),
        !.actual_change_pct =
            Some(PctRound2(actual_price - row.current_price, row.current_price)),
        !.error_pct =
            Some(AbsI(PctRound2(actual_price - row.predicted_price, row.predicted_price))),
        !.accuracy_evaluated = TRUE ]

(* The body of the loop for one row whose symbol has a price *)
EvaluateRow(row, actual_price) ==
    [ row EXCEPT
        !.actual_price = Some(Round4(actual_price)),
        !.actual_change_pct =
            Some(PctRound2(actual_price - row.current_price, row.current_price)),
        !.error_pct =
            Some(AbsI(PctRound2(actual_price - row.predicted_price, actual_price))),
        !.accuracy_evaluated = TRUE ]

(* The rows the loop updates and counts *)
RowsUpdated(df, current_time, current_prices) ==
    { i \in UpdateMask(df, current_time) : df[i].symbol \in DOMAIN current_prices }

(* Variant: a due row whose symbol has no price is closed without values *)
UpdateActualValuesClosingDeferred(current_prices) ==
    LET df == ledger
        mask == IF df = <<>> THEN {} ELSE UpdateMask(df, now)
        newdf == [ i \in 1..Len(df) |->
                     IF i \notin mask THEN df[i]
                     ELSE IF df[i].symbol \in DOMAIN current_prices
                     THEN EvaluateRow(df[i], current_prices[df[i].symbol])
                     ELSE [ df[i] EXCEPT !.accuracy_evaluated = TRUE ] ]
    IN  /\ ledger' = newdf
        /\ ret' = [ op |-> "update_actual_values", current_prices |-> current_prices,
                    value |-> Cardinality(mask) ]
        /\ UNCHANGED <<now, predictorVars, fileVars, session>>

UpdateActualValues(current_prices) ==
    LET df == ledger
        updated == IF df = <<>> THEN {} ELSE RowsUpdated(df, now, current_prices)
        newdf == [ i \in 1..Len(df) |->
                     IF i \in updated
                     THEN EvaluateRow(df[i], current_prices[df[i].symbol])
                     ELSE df[i] ]
        updated_count == Cardinality(updated)
    IN  /\ ledger' = IF updated_count > 0 THEN newdf ELSE ledger
        /\ ret' = [ op |-> "update_actual_values", current_prices |-> current_prices,
                    value |-> updated_count ]
        /\ UNCHANGED <<now, predictorVars, fileVars, session>>

-----------------------------------------------------------------------------
(* Accuracy statistics *)

(* "if symbol:" and "if horizon:": None and the empty string do not filter *)
SymbolGiven(symbol) == symbol # None /\ Val(symbol) # ""

HorizonGiven(horizon) == horizon # None /\ Val(horizon) # <<>>

(* df[df['symbol'] == symbol] and df[df['horizon'] == horizon] *)
FilterSymbol(df, symbol) ==
    IF SymbolGiven(symbol)
    THEN SelectSeq(df, LAMBDA r : r.symbol = Val(symbol))
    ELSE df

FilterHorizon(df, horizon) ==
    IF HorizonGiven(horizon)
    THEN SelectSeq(df, LAMBDA r : r.horizon = Val(horizon))
    ELSE df

(* df[df['accuracy_evaluated'] == True] *)
EvaluatedRows(df) == SelectSeq(df, LAMBDA r : r.accuracy_evaluated = TRUE)

(* The non-null cells of the error_pct column, in row order *)
ErrorColumn(rows) ==
    LET present == SelectSeq(rows, LAMBDA r : r.error_pct # None)
    IN  [ i \in 1..Len(present) |-> Val(present[i].error_pct) ]

RECURSIVE MinOf(_)
MinOf(xs) ==
    IF Len(xs) = 1 THEN xs[1]
    ELSE LET m == MinOf(Tail(xs)) IN IF Head(xs) <= m THEN Head(xs) ELSE m

RECURSIVE MaxOf(_)
MaxOf(xs) ==
    IF Len(xs) = 1 THEN xs[1]
    ELSE LET m == MaxOf(Tail(xs)) IN IF Head(xs) >= m THEN Head(xs) ELSE m

(* xs without its first occurrence of v *)
RECURSIVE RemoveFirst(_, _)
RemoveFirst(xs, v) ==
    IF xs = <<>> THEN <<>>
    ELSE IF Head(xs) = v THEN Tail(xs)
    ELSE <<Head(xs)>> \o RemoveFirst(Tail(xs), v)

RECURSIVE SortAsc(_)
SortAsc(xs) ==
    IF xs = <<>> THEN <<>>
    ELSE LET m == MinOf(xs) IN <<m>> \o SortAsc(RemoveFirst(xs, m))

(* Series.mean() and Series.median() followed by round(x, 2); the values   *)
(* are non-negative hundredths of a percent                                *)
MeanRound2(xs) == RoundHalfEven(SumSeq(xs), Len(xs))

MedianRound2(xs) ==
    LET sorted == SortAsc(xs)
        n == Len(xs)
    IN  IF n % 2 = 1 THEN sorted[(n + 1) \div 2]
        ELSE RoundHalfEven(sorted[n \div 2] + sorted[n \div 2 + 1], 2)

(* (predicted_change_pct > 0) == (actual_change_pct > 0) for one row; a    *)
(* missing actual change compares as not greater than zero                 *)
DirectionCorrect(r) ==
    (r.predicted_change_pct > 0) =
        (r.actual_change_pct # None /\ Val(r.actual_change_pct) > 0)

(* round(correct / len * 100, 2) in hundredths of a percent *)
DirectionAccuracy(rows) ==
    LET correct_direction == Len(SelectSeq(rows, DirectionCorrect))
    IN  RoundHalfEven(correct_direction * 10000, Len(rows))

(* A variant that reports zeros when nothing is evaluated *)
GetAccuracyStatsZeros(df, symbol, horizon) ==
    LET filtered == FilterHorizon(FilterSymbol(df, symbol), horizon)
        evaluated_df == EvaluatedRows(filtered)
        errors == ErrorColumn(evaluated_df)
    IN  IF evaluated_df = <<>>
        THEN [ total_predictions |-> Len(filtered),
               evaluated_predictions |-> 0,
               average_error_pct |-> Some(0),
               median_error_pct |-> Some(0),
               correct_direction_pct |-> Some(0) ]
        ELSE [ total_predictions |-> Len(filtered),
               evaluated_predictions |-> Len(evaluated_df),
               average_error_pct |-> Some(MeanRound2(errors)),
               median_error_pct |-> Some(MedianRound2(errors)),
               correct_direction_pct |-> Some(DirectionAccuracy(evaluated_df)),
               best_prediction_error |-> Some(MinOf(errors)),
               worst_prediction_error |-> Some(MaxOf(errors)) ]

GetAccuracyStats(df, symbol, horizon) ==
    IF df = <<>>
    THEN [ total_predictions |-> 0, evaluated_predictions |-> 0 ]
    ELSE LET filtered == FilterHorizon(FilterSymbol(df, symbol), horizon)
             evaluated_df == EvaluatedRows(filtered)
             errors == ErrorColumn(evaluated_df)
         IN  IF evaluated_df = <<>>
             THEN [ total_predictions |-> Len(filtered),
                    evaluated_predictions |-> 0,
                    average_error_pct |-> None,
                    median_error_pct |-> None,
                    correct_direction_pct |-> None ]
             ELSE [ total_predictions |-> Len(filtered),
                    evaluated_predictions |-> Len(evaluated_df),
                    average_error_pct |-> Some(MeanRound2(errors)),
                    median_error_pct |-> Some(MedianRound2(errors)),
                    correct_direction_pct |-> Some(DirectionAccuracy(evaluated_df)),
                    best_prediction_error |-> Some(MinOf(errors)),
                    worst_prediction_error |-> Some(MaxOf(errors)) ]

AccuracyStats(symbol, horizon) ==
    /\ ret' = [ op |-> "get_accuracy_stats",
                value |-> GetAccuracyStats(ledger, symbol, horizon) ]
    /\ UNCHANGED <<ledger, now, predictorVars, fileVars, session>>

(* evaluated_df.groupby('horizon').agg(...): one row per group key *)
HorizonGroup(evaluated_df, key) == SelectSeq(evaluated_df, LAMBDA r : r.horizon = key)

(* A variant whose direction column is computed over all evaluated rows *)
HorizonRowDirectionOverAll(evaluated_df, key) ==
    LET x == HorizonGroup(evaluated_df, key)
        errors == ErrorColumn(x)
    IN  [ Orizzonte |-> key,
          Errore_Medio |-> MeanRound2(errors),
          Errore_Mediano |-> MedianRound2(errors),
          Miglior_Errore |-> MinOf(errors),
          Peggior_Errore |-> MaxOf(errors),
          N_Previsioni |-> Len(errors),
          Direzione_Corretta |-> DirectionAccuracy(evaluated_df) ]

HorizonRow(evaluated_df, key) ==
    LET x == HorizonGroup(evaluated_df, key)
        errors == ErrorColumn(x)
    IN  [ Orizzonte |-> key,
          Errore_Medio |-> MeanRound2(errors),
          Errore_Mediano |-> MedianRound2(errors),
          Miglior_Errore |-> MinOf(errors),
          Peggior_Errore |-> MaxOf(errors),
          N_Previsioni |-> Len(errors),
          Direzione_Corretta |-> DirectionAccuracy(x) ]

GetAccuracyByHorizon(df) ==
    LET evaluated_df == EvaluatedRows(df)
        keys == { evaluated_df[i].horizon : i \in 1..Len(evaluated_df) }
    IN  IF df = <<>> \/ evaluated_df = <<>> THEN {}
        ELSE { HorizonRow(evaluated_df, key) : key \in keys }

AccuracyByHorizon ==
    /\ ret' = [ op |-> "get_accuracy_by_horizon", value |-> GetAccuracyByHorizon(ledger) ]
    /\ UNCHANGED <<ledger, now, predictorVars, fileVars, session>>

-----------------------------------------------------------------------------
(* History *)

(* The first row with the latest prediction_timestamp *)
RECURSIVE LatestIndex(_, _, _)
LatestIndex(rows, i, best) ==
    IF i > Len(rows) THEN best
    ELSE IF rows[i].prediction_timestamp > rows[best].prediction_timestamp
    THEN LatestIndex(rows, i + 1, i)
    ELSE LatestIndex(rows, i + 1, best)

(* sort_values('prediction_timestamp', ascending=False); rows with equal   *)
(* timestamps keep their file order                                        *)
RECURSIVE SortByTimestampDesc(_)
SortByTimestampDesc(rows) ==
    IF rows = <<>> THEN <<>>
    ELSE LET k == LatestIndex(rows, 2, 1)
             rest == [ j \in 1..(Len(rows) - 1) |-> IF j < k THEN rows[j] ELSE rows[j + 1] ]
         IN  <<rows[k]>> \o SortByTimestampDesc(rest)

(* df.head(limit), limit >= 0 *)
HeadRows(rows, limit) == SubSeq(rows, 1, IF limit < Len(rows) THEN limit ELSE Len(rows))

(* Variant: the rows are cut to limit before they are sorted *)
GetPredictionsHistoryHeadFirst(df, symbol, limit) ==
    IF df = <<>> THEN <<>>
    ELSE SortByTimestampDesc(HeadRows(FilterSymbol(df, symbol), limit))

GetPredictionsHistory(df, symbol, limit) ==
    IF df = <<>> THEN <<>>
    ELSE HeadRows(SortByTimestampDesc(FilterSymbol(df, symbol)), limit)

PredictionsHistory(symbol, limit) ==
    /\ ret' = [ op |-> "get_predictions_history", symbol |-> symbol, limit |-> limit,
                value |-> GetPredictionsHistory(ledger, symbol, limit) ]
    /\ UNCHANGED <<ledger, now, predictorVars, fileVars, session>>

-----------------------------------------------------------------------------
(* The wall clock read by datetime.now() *)

Tick ==
    /\ now + TickHours <= MaxTime
    /\ now' = now + TickHours
    /\ ret' = [ op |-> "tick" ]
    /\ UNCHANGED <<ledger, predictorVars, fileVars, session>>

-----------------------------------------------------------------------------
(* Ensemble forecaster (src/models/predictor.py, class StockPredictor)     *)
(*                                                                         *)
(* A DataFrame of bars is the sequence of its close prices, oldest first   *)
(* (the only feature column every frame has).  The scaler is None while    *)
(* unfitted and otherwise holds the attributes MinMaxScaler.fit sets.  A   *)
(* model slot is None or the fitted model, which is identified by the data *)
(* it was fitted on.  What the fitted libraries compute (whether a fit or  *)
(* a forecast raises, the forecast values) is chosen by the environment.   *)
(* Sentiment weights are in units of 1 / WeightUnit, scaled values in      *)
(* units of 1 / ScaleUnit, model weights in tenths.                        *)

DefaultLookback == 60
MinTrainingMargin == 100
PredictTailRows == 60
WeightUnit == 10
ScaleUnit == 1000
ProphetWeight == 6
RfWeight == 4
FullWeight == 10

Max2(a, b) == IF a >= b THEN a ELSE b

(* df.tail(n) *)
TailRows(df, n) == IF Len(df) <= n THEN df ELSE SubSeq(df, Len(df) - n + 1, Len(df))

(* MinMaxScaler.fit(data): data_min_, data_max_, n_samples_seen_ *)
(* The least and the greatest of data[lo..hi] *)
RECURSIVE ColumnMin(_, _, _)
ColumnMin(data, lo, hi) ==
    IF lo = hi THEN data[lo]
    ELSE LET mid == (lo + hi) \div 2
             l == ColumnMin(data, lo, mid)
             r == ColumnMin(data, mid + 1, hi)
         IN  IF l <= r THEN l ELSE r

RECURSIVE ColumnMax(_, _, _)
ColumnMax(data, lo, hi) ==
    IF lo = hi THEN data[lo]
    ELSE LET mid == (lo + hi) \div 2
             l == ColumnMax(data, lo, mid)
             r == ColumnMax(data, mid + 1, hi)
         IN  IF l >= r THEN l ELSE r

FitScaler(data) ==
    [ n_samples_seen_ |-> Len(data),
      data_min_ |-> ColumnMin(data, 1, Len(data)),
      data_max_ |-> ColumnMax(data, 1, Len(data)) ]

(* MinMaxScaler.transform of one value; a constant column scales to zero   *)
Transform(fitted, x) ==
    IF fitted.data_max_ = fitted.data_min_ THEN 0
    ELSE ((x - fitted.data_min_) * ScaleUnit) \div (fitted.data_max_ - fitted.data_min_)

(* MinMaxScaler.inverse_transform of one value *)
InverseTransform(fitted, v) ==
    IF fitted.data_max_ = fitted.data_min_ THEN v + fitted.data_min_
    ELSE (v * (fitted.data_max_ - fitted.data_min_)) \div ScaleUnit + fitted.data_min_

(* prepare_data(df, lookback) on a frame with at least one row: the scaler *)
(* is fitted anew on df, X[k] is the window of lookback scaled rows before *)
(* row lookback + k and y[k] the scaled close of that row                  *)
PrepareData(df, lookback) ==
    LET fitted == FitScaler(df)
        scaled_data == [ i \in 1..Len(df) |-> Transform(fitted, df[i]) ]
        count == Max2(0, Len(df) - lookback)
    IN  [ scaler |-> Some(fitted),
          X |-> [ k \in 1..count |-> SubSeq(scaled_data, k, k + lookback - 1) ],
          y |-> [ k \in 1..count |-> scaled_data[lookback + k] ] ]

(* Variant: a failed fit leaves the slot as it was *)
TrainProphetKeepingStale(old_model, df, fit_succeeds) ==
    IF fit_succeeds THEN Some([ history |-> df ]) ELSE old_model

(* train_prophet: the slot holds the model fitted on df, or None when the  *)
(* construction or the fit raised                                          *)
TrainProphet(old_model, df, fit_succeeds) ==
    IF fit_succeeds THEN Some([ history |-> df ]) ELSE None

(* train_random_forest: likewise for the windows X and targets y           *)
TrainRandomForest(old_model, X, y, fit_succeeds) ==
    IF fit_succeeds THEN Some([ n_samples |-> Len(X), targets |-> y ]) ELSE None

(* Variants of the data check: one that asks for lookback rows only, one   *)
(* that rejects exactly lookback + 100 rows                                *)
InsufficientDataLookbackOnly(df, lookback) == df = <<>> \/ Len(df) < lookback

InsufficientDataOffByOne(df, lookback) ==
    df = <<>> \/ Len(df) <= lookback + MinTrainingMargin

(* df.empty or len(df) < lookback + 100 *)
InsufficientData(df, lookback) == df = <<>> \/ Len(df) < lookback + MinTrainingMargin

(* train(df): False when the data checks fail; else both fits are tried    *)
(* and the predictor is marked trained                                     *)
Train(df, prophet_fits, rf_fits) ==
    LET lookback == DefaultLookback
        prepared == PrepareData(df, lookback)
    IN  /\ IF InsufficientData(df, lookback)
           THEN /\ ret' = [ op |-> "train", df |-> df, fits |-> None, value |-> FALSE ]
                /\ UNCHANGED predictorVars
           ELSE IF Len(prepared.X) = 0
           THEN /\ scaler' = prepared.scaler
                /\ ret' = [ op |-> "train", df |-> df, fits |-> None, value |-> FALSE ]
                /\ UNCHANGED <<prophet_model, rf_model, is_trained>>
           ELSE /\ scaler' = prepared.scaler
                /\ prophet_model' = TrainProphet(prophet_model, df, prophet_fits)
                /\ rf_model' = TrainRandomForest(rf_model, prepared.X, prepared.y, rf_fits)
                /\ is_trained' = TRUE
                /\ ret' = [ op |-> "train", df |-> df,
                            fits |-> Some([ prophet |-> prophet_fits,
                                            random_forest |-> rf_fits ]),
                            value |-> TRUE ]
        /\ UNCHANGED <<ledger, now, fileVars, session>>

-----------------------------------------------------------------------------
(* Inputs *)

Symbols == {"X", "Y"}

STOCK_NAMES(symbol) == IF symbol = "X" THEN "X S.p.A." ELSE "Y S.p.A."

Price(units, quarterTicks) == units * PriceUnit + quarterTicks

CurrentPriceInputs == {Price(100, 0)}

PredictedPriceInputs == {Price(105, 1)}

HorizonInputs == {<<"2", "h">>, <<"1", "d">>}

ActualPriceInputs == {Price(103, 0), Price(97, 1)}

PriceMaps(symbols, prices) == UNION { [S -> prices] : S \in SUBSET symbols }

SymbolFilters == {None} \cup { Some(s) : s \in Symbols }

HorizonFilters == {None} \cup { Some(h) : h \in HorizonInputs }

(* The (symbol, horizon) and (symbol, limit) arguments of the read calls *)
StatsQueries ==
    { <<None, None>>, <<Some("X"), None>>, <<None, Some(<<"1", "d">>)>>,
      <<Some("Y"), Some(<<"2", "h">>)>> }

HistoryQueries == { <<None, 2>>, <<Some("X"), 1>> }

-----------------------------------------------------------------------------
(* Specification *)

(* The writers of predictions_history.csv that run concurrently: the      *)
(* dashboard of a browser session and the collector process                *)
Writers == { "dashboard", "collector" }

(* initialize_session_state: nothing loaded, the first stock selected; the *)
(* script has not started                                                  *)
InitialSessionState ==
    [ stock_data |-> <<>>, all_stocks_loaded |-> FALSE, selected_stock |-> "X",
      pc |-> [ phase |-> "start", stock |-> 0, horizon |-> 0 ] ]

Init ==
    /\ columns = PredictionColumns
    /\ inflight = [ w \in Writers |-> None ]
    /\ session = InitialSessionState
    /\ ledger = <<>>
    /\ now = 0
    /\ ret = [ op |-> "init" ]
    /\ scaler = None
    /\ prophet_model = None
    /\ rf_model = None
    /\ is_trained = FALSE

Next ==
    \/ \E s \in Symbols, c \in CurrentPriceInputs, h \in HorizonInputs,
          p \in PredictedPriceInputs : LogPrediction(s, STOCK_NAMES(s), c, h, p)
    \/ \E cp \in PriceMaps(Symbols, ActualPriceInputs) : UpdateActualValues(cp)
    \/ \E q \in StatsQueries : AccuracyStats(q[1], q[2])
    \/ AccuracyByHorizon
    \/ \E q \in HistoryQueries : PredictionsHistory(q[1], q[2])
    \/ Tick

Spec == Init /\ [][Next]_vars

-----------------------------------------------------------------------------
(* The same operations called with horizon strings inside and outside the  *)
(* grammar and with a zero current price                                   *)

HorizonStrings ==
    { <<"2", "h">>, <<"1", "d">>, <<"h", "2">>, <<"2", "h", "h">>,
      <<"-", "2", "h">>, <<"2", "w">>, <<>>, <<"2", "h", "d">>,
      <<"9", "9", "9", "9", "9", "9", "9", "d">> }

ZeroAndCurrentPrices == {0, Price(100, 0)}

NextLog ==
    \/ \E c \in ZeroAndCurrentPrices, h \in HorizonStrings :
          LogPrediction("X", STOCK_NAMES("X"), c, h, Price(105, 1))
    \/ \E cp \in PriceMaps({"X"}, {Price(103, 0)}) : UpdateActualValues(cp)
    \/ AccuracyStats(None, None)
    \/ AccuracyByHorizon
    \/ PredictionsHistory(None, 2)
    \/ Tick

SpecLog == Init /\ [][NextLog]_vars

-----------------------------------------------------------------------------
(* Ensemble forecaster: predict *)

MaxDays == 2

(* str(n) *)
DigitChar(d) == CHOOSE c \in Digits : DigitVal(c) = d

RECURSIVE FormatNat(_)
FormatNat(n) ==
    IF n < 10 THEN <<DigitChar(n)>> ELSE FormatNat(n \div 10) \o <<DigitChar(n % 10)>>

FormatInt(n) == IF n < 0 THEN <<"-">> \o FormatNat(0 - n) ELSE FormatNat(n)

(* total_days = days if hours == 0 else max(1, int(hours / 24)); under     *)
(* max(1, .) truncation and floor of a negative quotient give the same     *)
TotalDays(hours, days) == IF hours = 0 THEN days ELSE Max2(1, hours \div HoursPerDay)

(* f"{hours}h" if hours > 0 else f"{days}d" *)
HorizonLabel(hours, days) ==
    IF hours > 0 THEN FormatInt(hours) \o <<"h">> ELSE FormatInt(days) \o <<"d">>

(* Rows (yhat, yhat_lower, yhat_upper) a fitted seasonal model may         *)
(* forecast and scaled closes a fitted regression model may predict        *)
ForecastRows ==
    { [ yhat |-> Price(101, 0), yhat_lower |-> Price(99, 0), yhat_upper |-> Price(103, 0) ],
      [ yhat |-> Price(98, 2), yhat_lower |-> Price(95, 0), yhat_upper |-> Price(100, 0) ] }

RfOutputs == { 250, 750 }

(* predict_prophet(days): None without a model or when the library raises, *)
(* else the last days rows of the forecast                                 *)
PredictProphet(model, days) ==
    IF model = None THEN { None }
    ELSE { None } \cup { Some(forecast) : forecast \in [1..days -> ForecastRows] }

(* predict_rf(last_sequence, steps): None without a model or when the      *)
(* library raises, else one predicted scaled close per step, each from the *)
(* window slid by one                                                      *)
PredictRf(model, last_sequence, steps) ==
    IF model = None THEN { None }
    ELSE { None } \cup { Some(predictions) : predictions \in [1..steps -> RfOutputs] }

(* current_price * sentiment_weight * 0.02 *)
SentimentAdjustment(current_price, sentiment_weight) ==
    (current_price * sentiment_weight * 2) \div (100 * WeightUnit)

(* if sentiment_weight != 0: ensemble_pred + sentiment_adjustment, where   *)
(* current_price is the last close of the frame                            *)
AdjustForSentiment(ensemble_pred, current_price, sentiment_weight) ==
    IF sentiment_weight # 0
    THEN [ k \in 1..Len(ensemble_pred) |->
             ensemble_pred[k] + SentimentAdjustment(current_price, sentiment_weight) ]
    ELSE ensemble_pred

(* The dictionary predict returns; a dictionary of weights is the set of   *)
(* its (key, value) pairs and the empty dictionary {} the empty function   *)
EmptyResult == <<>>

Ensemble(df, hours, days, sentiment_weight, prophet_pred, rf_pred, fitted) ==
    LET predictions == [ horizon |-> HorizonLabel(hours, days),
                         predictions |-> <<>>,
                         confidence_lower |-> <<>>,
                         confidence_upper |-> <<>>,
                         model_weights |-> {} ]
    IN  IF prophet_pred # None /\ rf_pred # None
        THEN LET prophet_values == [ k \in 1..Len(Val(prophet_pred)) |-> Val(prophet_pred)[k].yhat ]
                 rf_values == [ k \in 1..Len(Val(rf_pred)) |->
                                  InverseTransform(fitted, Val(rf_pred)[k]) ]
                 ensemble_pred == [ k \in 1..Len(prophet_values) |->
                                      (ProphetWeight * prophet_values[k]
                                         + RfWeight * rf_values[k]) \div FullWeight ]
             IN  [ predictions EXCEPT
                     !.predictions =
                         AdjustForSentiment(ensemble_pred, df[Len(df)], sentiment_weight),
                     !.confidence_lower =
                         [ k \in 1..Len(Val(prophet_pred)) |-> Val(prophet_pred)[k].yhat_lower ],
                     !.confidence_upper =
                         [ k \in 1..Len(Val(prophet_pred)) |-> Val(prophet_pred)[k].yhat_upper ],
                     !.model_weights = { <<"prophet", ProphetWeight>>,
                                         <<"random_forest", RfWeight>>,
                                         <<"sentiment", AbsI(sentiment_weight)>> } ]
        ELSE IF prophet_pred # None
        THEN [ predictions EXCEPT
                 !.predictions =
                     [ k \in 1..Len(Val(prophet_pred)) |-> Val(prophet_pred)[k].yhat ],
                 !.confidence_lower =
                     [ k \in 1..Len(Val(prophet_pred)) |-> Val(prophet_pred)[k].yhat_lower ],
                 !.confidence_upper =
                     [ k \in 1..Len(Val(prophet_pred)) |-> Val(prophet_pred)[k].yhat_upper ],
                 !.model_weights = { <<"prophet", FullWeight>> } ]
        ELSE predictions

(* The exceptions prepare_data raises on a frame without rows: KeyError of *)
(* df[feature_columns] when the frame has no close column (pd.DataFrame()) *)
(* and ValueError of fit_transform when it has the column and no row; fit  *)
(* resets the scaler before it validates its input                         *)
PrepareDataRaises(df) == IF df = <<>> THEN { "KeyError", "ValueError" } ELSE {}

ScalerAfterRaise(old_scaler, kind) == IF kind = "ValueError" THEN None ELSE old_scaler

(* predict on a trained predictor with a frame without rows: after the    *)
(* seasonal forecast, prepare_data(df.tail(60)) raises and predict, which  *)
(* has no handler, passes the exception on to its caller                   *)
PredictRaising(df, hours, days, sentiment_weight) ==
    \E kind \in PrepareDataRaises(TailRows(df, PredictTailRows)) :
        /\ scaler' = ScalerAfterRaise(scaler, kind)
        /\ ret' = [ op |-> "predict", df |-> df, hours |-> hours, days |-> days,
                    sentiment_weight |-> sentiment_weight, raised |-> kind ]
        /\ UNCHANGED <<prophet_model, rf_model, is_trained>>

(* predict on a predictor that is not trained: the empty dictionary *)
PredictNotTrained(df, hours, days, sentiment_weight) ==
    /\ ret' = [ op |-> "predict", df |-> df, hours |-> hours, days |-> days,
                sentiment_weight |-> sentiment_weight,
                prophet_pred |-> None, rf_pred |-> None, value |-> EmptyResult ]
    /\ UNCHANGED predictorVars

(* predict on a trained predictor, on a frame with at least one row: the   *)
(* seasonal forecast, then prepare_data on the last rows (which fits the   *)
(* scaler on them), the regression forecast when a window exists, and the  *)
(* combination                                                             *)
PredictTrained(df, hours, days, sentiment_weight) ==
    LET total_days == TotalDays(hours, days)
        prepared == PrepareData(TailRows(df, PredictTailRows), DefaultLookback)
        X_data == prepared.X
    IN  \E prophet_pred \in PredictProphet(prophet_model, total_days) :
        \E rf_pred \in (IF Len(X_data) > 0
                        THEN PredictRf(rf_model, X_data[Len(X_data)], total_days)
                        ELSE { None }) :
            /\ scaler' = prepared.scaler
            /\ ret' = [ op |-> "predict", df |-> df, hours |-> hours, days |-> days,
                        sentiment_weight |-> sentiment_weight,
                        prophet_pred |-> prophet_pred, rf_pred |-> rf_pred,
                        value |-> Ensemble(df, hours, days, sentiment_weight,
                                           prophet_pred, rf_pred, Val(prepared.scaler)) ]
            /\ UNCHANGED <<prophet_model, rf_model, is_trained>>

(* Variant: the trained flag is not tested *)
PredictSkippingTrainedCheck(df, hours, days, sentiment_weight) ==
    /\ PredictTrained(df, hours, days, sentiment_weight)
    /\ UNCHANGED <<ledger, now, fileVars, session>>

Predict(df, hours, days, sentiment_weight) ==
    /\ IF ~is_trained
       THEN PredictNotTrained(df, hours, days, sentiment_weight)
       ELSE IF PrepareDataRaises(TailRows(df, PredictTailRows)) # {}
       THEN PredictRaising(df, hours, days, sentiment_weight)
       ELSE PredictTrained(df, hours, days, sentiment_weight)
    /\ UNCHANGED <<ledger, now, fileVars, session>>

(* Inputs of the forecaster: rising closes, one bar per row; frames with   *)
(* too few rows to train, with exactly enough and with more; a horizon of   *)
(* whole days and one of hours; no sentiment, the weight -0.3 (the largest *)
(* magnitude get_sentiment_weight returns) and a weight of 2               *)
Bars(n) == [ i \in 1..n |-> Price(100, 0) + i * 1000 ]

TrainBars == { Bars(n) : n \in {0, 159, 160, 200} }

PredictBars == { Bars(n) : n \in {30, 160} }

HorizonArgs == { <<0, MaxDays>>, <<2, 0>> }

SentimentWeights == { 0, 0 - 3, 20 }

NextPredictor ==
    \/ \E df \in TrainBars, prophet_fits \in BOOLEAN, rf_fits \in BOOLEAN :
          Train(df, prophet_fits, rf_fits)
    \/ \E df \in PredictBars, h \in HorizonArgs, w \in SentimentWeights :
          Predict(df, h[1], h[2], w)

SpecPredictor == Init /\ [][NextPredictor]_vars

-----------------------------------------------------------------------------
(* The sentiment adjustment of predict on its own: lines 281-285 applied   *)
(* to a combined forecast, a last close and a sentiment weight, for        *)
(* weights from -MaxWeight to MaxWeight tenths                             *)

MaxWeight == 25

ApplySentiment(ensemble_pred, current_price, sentiment_weight) ==
    /\ ret' = [ op |-> "sentiment_adjustment", ensemble_pred |-> ensemble_pred,
                current_price |-> current_price, sentiment_weight |-> sentiment_weight,
                value |-> AdjustForSentiment(ensemble_pred, current_price,
                                             sentiment_weight) ]
    /\ UNCHANGED <<ledger, now, predictorVars, fileVars, session>>

LastCloses == { Price(1, 0), Price(50, 0), Price(100, 0), Price(200, 0) }

CombinedForecasts == { <<Price(101, 0)>>, <<Price(98, 2), Price(101, 0)>> }

NextAdjustment ==
    \E ensemble_pred \in CombinedForecasts, current_price \in LastCloses,
       sentiment_weight \in (0 - MaxWeight)..MaxWeight :
        ApplySentiment(ensemble_pred, current_price, sentiment_weight)

SpecAdjustment == Init /\ [][NextAdjustment]_vars

-----------------------------------------------------------------------------
(* The history read with every kind of symbol argument (none, the empty    *)
(* string, a symbol of the watch-list, a symbol never logged) and limits   *)
(* from zero to more than the ledger holds                                 *)

HistorySymbols == { None, Some(""), Some("X"), Some("Y"), Some("Z") }

HistoryLimits == 0..(MaxRecords + 1)

NextHistory ==
    \/ \E s \in Symbols :
          LogPrediction(s, STOCK_NAMES(s), Price(100, 0), <<"2", "h">>, Price(105, 1))
    \/ \E cp \in PriceMaps({"X"}, {Price(103, 0)}) : UpdateActualValues(cp)
    \/ \E symbol \in HistorySymbols, limit \in HistoryLimits :
          PredictionsHistory(symbol, limit)
    \/ Tick

SpecHistory == Init /\ [][NextHistory]_vars

-----------------------------------------------------------------------------
(* The same operations with predictions of no change as well as of a rise, *)
(* and quotes below and above the price at prediction time                 *)

FlatAndRisingPrices == {Price(100, 0), Price(105, 1)}

StatsHorizonQueries == { None, Some(<<"2", "h">>), Some(<<"1", "d">>) }

NextStats ==
    \/ \E h \in HorizonInputs, p \in FlatAndRisingPrices :
          LogPrediction("X", STOCK_NAMES("X"), Price(100, 0), h, p)
    \/ \E cp \in PriceMaps({"X"}, ActualPriceInputs) : UpdateActualValues(cp)
    \/ \E h \in StatsHorizonQueries : AccuracyStats(None, h)
    \/ AccuracyByHorizon
    \/ PredictionsHistory(None, 2)
    \/ Tick

SpecStats == Init /\ [][NextStats]_vars

-----------------------------------------------------------------------------
(* Properties of reconciliation *)

EvaluationFields(r) == <<r.actual_price, r.actual_change_pct, r.error_pct>>

PredictionFields(r) ==
    <<r.prediction_timestamp, r.symbol, r.stock_name, r.current_price, r.horizon,
      r.target_timestamp, r.predicted_price, r.predicted_change_pct>>

Unevaluated(df) == { i \in 1..Len(df) : ~df[i].accuracy_evaluated }

NewlyEvaluated ==
    { i \in 1..Len(ledger) :
        /\ ~ledger[i].accuracy_evaluated
        /\ i <= Len(ledger')
        /\ ledger'[i].accuracy_evaluated }

(* C1: once a record is evaluated, no later step changes its actual_price, *)
(* actual_change_pct or error_pct or clears its flag, and a reconcile call *)
(* never counts it: its return value is at most the number of records that *)
(* were unevaluated before the call, whatever prices are passed.           *)
C1_ReconcileIdempotent ==
    [][ /\ \A i \in 1..Len(ledger) :
              ledger[i].accuracy_evaluated =>
                  /\ i <= Len(ledger')
                  /\ ledger'[i].accuracy_evaluated
                  /\ EvaluationFields(ledger'[i]) = EvaluationFields(ledger[i])
        /\ ret'.op = "update_actual_values" =>
              /\ ret'.value <= Cardinality(Unevaluated(ledger))
              /\ ret'.value = Cardinality(NewlyEvaluated) ]_vars

(* Two records of one symbol evaluated by different reconcile calls at     *)
(* different prices: the second call passed a new price for the symbol of  *)
(* an evaluated record and returned 1.                                     *)
C1_Witness ==
    /\ ret.op = "update_actual_values"
    /\ ret.value = 1
    /\ \E i, j \in 1..Len(ledger) :
          /\ i # j
          /\ ledger[i].symbol = ledger[j].symbol
          /\ ledger[i].accuracy_evaluated
          /\ ledger[j].accuracy_evaluated
          /\ ledger[i].actual_price # ledger[j].actual_price

(* What one reconcile call must do, stated from the records alone *)
ReconcilePost(current_prices) ==
    LET eligible == { i \in 1..Len(ledger) :
                        /\ ledger[i].target_timestamp <= now
                        /\ ledger[i].accuracy_evaluated = FALSE
                        /\ ledger[i].symbol \in DOMAIN current_prices }
    IN  /\ Len(ledger') = Len(ledger)
        /\ \A i \in 1..Len(ledger) :
              IF i \in eligible
              THEN ledger'[i].accuracy_evaluated
              ELSE ledger'[i] = ledger[i]
        /\ ret'.value = Cardinality(NewlyEvaluated)
        /\ NewlyEvaluated = eligible

C3_AppendOnly ==
    [][ /\ Len(ledger') >= Len(ledger)
        /\ \A i \in 1..Len(ledger) :
              PredictionFields(ledger'[i]) = PredictionFields(ledger[i]) ]_vars

(* A reconcile call has just rewritten a file of two records *)
C3_Witness ==
    /\ ret.op = "update_actual_values"
    /\ ret.value >= 1
    /\ Len(ledger) = 2
    /\ \E i \in 1..Len(ledger) : ~ledger[i].accuracy_evaluated

(* v hundredths of a percent is (n / d) * 100 exactly; n >= 0, d > 0 *)
IsExactPct(v, n, d) ==
    LET q == (n * 100) \div d
        r == (n * 100) % d
    IN  /\ (r * 100) % d = 0
        /\ v = q * 100 + (r * 100) \div d

(* v hundredths of a percent is a nearest two-decimal value of             *)
(* (n / d) * 100; n >= 0, d > 0                                            *)
IsNearestPct(v, n, d) ==
    LET q == (n * 100) \div d
        r == (n * 100) % d
        k == v - q * 100
    IN  2 * AbsI(100 * r - k * d) <= d

SignedPct(v, n, d, Is(_, _, _)) ==
    IF n < 0 THEN v <= 0 /\ Is(-v, -n, d) ELSE v >= 0 /\ Is(v, n, d)

(* C6 as stated: a newly evaluated record holds the exact values           *)
(* (a - c) / c * 100 and |a - p| / a * 100 and the supplied price a itself. *)
C6_ExactValues ==
    [][ ret'.op = "update_actual_values" =>
                \A i \in NewlyEvaluated :
                    LET a == ret'.current_prices[ledger[i].symbol]
                        c == ledger[i].current_price
                        p == ledger[i].predicted_price
                        r == ledger'[i]
                    IN  /\ r.actual_price = Some(a)
                        /\ SignedPct(Val(r.actual_change_pct), a - c, c, IsExactPct)
                        /\ IsExactPct(Val(r.error_pct), AbsI(a - p), a)
                        /\ r.accuracy_evaluated ]_vars

(* C6 amended: a newly evaluated record holds (a - c) / c * 100 and        *)
(* |a - p| / a * 100 rounded to two decimals (the error relative to the    *)
(* actual price), a rounded to four decimals, and the flag set; c and p    *)
(* are the record's stored prices.                                         *)
C6_RoundedValues ==
    [][ ret'.op = "update_actual_values" =>
                \A i \in NewlyEvaluated :
                    LET a == ret'.current_prices[ledger[i].symbol]
                        c == ledger[i].current_price
                        p == ledger[i].predicted_price
                        r == ledger'[i]
                    IN  /\ r.actual_price # None
                        /\ Val(r.actual_price) % 4 = 0
                        /\ 2 * AbsI(Val(r.actual_price) - a) <= 4
                        /\ r.actual_change_pct # None
                        /\ SignedPct(Val(r.actual_change_pct), a - c, c, IsNearestPct)
                        /\ r.error_pct # None
                        /\ IsNearestPct(Val(r.error_pct), AbsI(a - p), a)
                        /\ r.accuracy_evaluated ]_vars

(* A reconcile call has evaluated a record whose quote had more than four  *)
(* decimals and whose error is not a two-decimal number                    *)
C6_Witness ==
    /\ ret.op = "update_actual_values"
    /\ ret.value >= 1
    /\ \E i \in 1..Len(ledger) :
          /\ ledger[i].accuracy_evaluated
          /\ ledger[i].actual_price = Some(Price(97, 0))
          /\ ledger[i].actual_change_pct = Some(-300)
          /\ ledger[i].error_pct = Some(825)

(* The ledger of the example: one record of X, current price 100,          *)
(* predicted price 105, reconciled at 103                                  *)
ExampleReconciled ==
    /\ Len(ledger) = 1
    /\ ledger[1].symbol = "X"
    /\ ledger[1].current_price = Price(100, 0)
    /\ ledger[1].predicted_price = Price(105, 0)
    /\ ledger[1].actual_price = Some(Price(103, 0))

ExamplePrices == [ s \in {"X"} |-> Price(103, 0) ]

(* C7 as stated: in the example the first reconcile returns 1 and leaves   *)
(* actual_change_pct = 3.0, error_pct about 1.905 (1.90 or 1.91 at two     *)
(* decimals) and the flag set; a second reconcile returns 0.               *)
C7_ExampleAsStated ==
    [][ /\ (~ExampleReconciled /\ ExampleReconciled') =>
              /\ ret'.op = "update_actual_values"
              /\ ret'.value = 1
              /\ ledger'[1].actual_change_pct = Some(300)
              /\ Val(ledger'[1].error_pct) \in 190..191
              /\ ledger'[1].accuracy_evaluated
        /\ ( /\ ExampleReconciled
             /\ ret'.op = "update_actual_values"
             /\ ret'.current_prices = ExamplePrices ) =>
              ret'.value = 0 /\ ledger' = ledger ]_vars

(* C7 amended: in the example the first reconcile returns 1 and leaves     *)
(* actual_change_pct = 3.0, error_pct = 1.94 (|103 - 105| / 103 * 100 =    *)
(* 1.9417...) and the flag set; a second reconcile with the same prices    *)
(* returns 0 and changes nothing.                                          *)
C7_Example ==
    [][ /\ (~ExampleReconciled /\ ExampleReconciled') =>
              /\ ret'.op = "update_actual_values"
              /\ ret'.value = 1
              /\ ledger'[1].actual_change_pct = Some(300)
              /\ ledger'[1].error_pct = Some(194)
              /\ ledger'[1].accuracy_evaluated
        /\ ( /\ ExampleReconciled
             /\ ret'.op = "update_actual_values"
             /\ ret'.current_prices = ExamplePrices ) =>
              ret'.value = 0 /\ ledger' = ledger ]_vars

(* The example after its second reconcile *)
C7_Witness ==
    /\ ExampleReconciled
    /\ ret.op = "update_actual_values"
    /\ ret.current_prices = ExamplePrices
    /\ ret.value = 0

-----------------------------------------------------------------------------
(* Properties of log_prediction *)

(* The grammar ^\d+[hd]$ *)
MatchesHorizonGrammar(h) ==
    /\ Len(h) >= 2
    /\ h[Len(h)] \in {"h", "d"}
    /\ \A i \in 1..(Len(h) - 1) : h[i] \in Digits

(* The hours that "{n}h" or "{n}d" stands for *)
GrammarHours(h) ==
    LET n == DigitsValue(SubSeq(h, 1, Len(h) - 1))
    IN  IF h[Len(h)] = "h" THEN n ELSE n * 24

(* C4 as stated: a log_prediction call whose horizon is outside the        *)
(* grammar ^\d+[hd]$ appends no record and leaves the ledger unchanged.    *)
C4_MalformedHorizonIsNoOp ==
    [][ (ret'.op = "log_prediction" /\ ~MatchesHorizonGrammar(ret'.horizon)) =>
            ledger' = ledger ]_vars

(* The step of a log_prediction call appends exactly one record, with the  *)
(* target horizon-hours after the prediction time and empty evaluation     *)
(* fields, and leaves the earlier records unchanged                        *)
AppendedOne(hours) ==
    /\ Len(ledger') = Len(ledger) + 1
    /\ SubSeq(ledger', 1, Len(ledger)) = ledger
    /\ LET r == ledger'[Len(ledger')]
       IN  /\ r.target_timestamp = r.prediction_timestamp + hours
           /\ r.prediction_timestamp = now
           /\ r.horizon = ret'.horizon
           /\ r.actual_price = None
           /\ r.actual_change_pct = None
           /\ r.error_pct = None
           /\ r.accuracy_evaluated = FALSE

(* C5 as stated: every log_prediction call whose horizon is "{n}h" or      *)
(* "{n}d" appends exactly one record whose target is n hours (n days)      *)
(* after its prediction timestamp, with empty evaluation fields, and       *)
(* leaves the earlier records unchanged.                                   *)
C5_EveryGrammaticalCallAppends ==
    [][ (ret'.op = "log_prediction" /\ MatchesHorizonGrammar(ret'.horizon)) =>
            AppendedOne(GrammarHours(ret'.horizon)) ]_vars

(* C5 amended: the same for every call whose current price is not zero and *)
(* whose target time is a representable datetime.                          *)
C5_GrammaticalCallAppends ==
    [][ ( /\ ret'.op = "log_prediction"
          /\ MatchesHorizonGrammar(ret'.horizon)
          /\ ret'.current_price # 0
          /\ now + GrammarHours(ret'.horizon) <= DatetimeMaxHours ) =>
            AppendedOne(GrammarHours(ret'.horizon)) ]_vars

(* A "1d" call has appended a second record, 24 hours ahead, after a "2h"  *)
(* record 2 hours ahead                                                    *)
C5_Witness ==
    /\ ret.op = "log_prediction"
    /\ ret.horizon = <<"1", "d">>
    /\ Len(ledger) = 2
    /\ ledger[1].horizon = <<"2", "h">>
    /\ ledger[1].target_timestamp = ledger[1].prediction_timestamp + 2
    /\ ledger[2].horizon = <<"1", "d">>
    /\ ledger[2].target_timestamp = ledger[2].prediction_timestamp + 24
    /\ ledger[2].prediction_timestamp = now

-----------------------------------------------------------------------------
(* Properties of the accuracy statistics *)

(* The records a (symbol, horizon) filter selects *)
Matching(symbol, horizon) ==
    { i \in 1..Len(ledger) :
        /\ symbol # None => ledger[i].symbol = Val(symbol)
        /\ horizon # None => ledger[i].horizon = Val(horizon) }

AccuracyFields ==
    { "average_error_pct", "median_error_pct", "best_prediction_error",
      "worst_prediction_error", "correct_direction_pct" }

(* C8: for every filter, total_predictions is the number of matching       *)
(* records, and when no matching record is evaluated the statistics report *)
(* evaluated_predictions = 0 and every accuracy field absent or None,      *)
(* never a number.                                                         *)
C8_NoEvaluatedMeansUndefined ==
    \A symbol \in SymbolFilters, horizon \in HorizonFilters :
        LET stats == GetAccuracyStats(ledger, symbol, horizon)
            matching == Matching(symbol, horizon)
        IN  /\ stats.total_predictions = Cardinality(matching)
            /\ (\A i \in matching : ~ledger[i].accuracy_evaluated) =>
                  /\ stats.evaluated_predictions = 0
                  /\ \A f \in AccuracyFields :
                        f \in DOMAIN stats => stats[f] = None

(* get_accuracy_stats has just answered a filter that matches records,     *)
(* none of them evaluated, while another record of the ledger is evaluated *)
C8_Witness ==
    /\ ret.op = "get_accuracy_stats"
    /\ ret.value.total_predictions >= 1
    /\ ret.value.evaluated_predictions = 0
    /\ ret.value.average_error_pct = None
    /\ \E i \in 1..Len(ledger) : ledger[i].accuracy_evaluated

(* The sign of a change: -1, 0 or 1 *)
Sign(x) == IF x < 0 THEN -1 ELSE IF x = 0 THEN 0 ELSE 1

(* C9 as stated: the reported directional accuracy is 100 times the        *)
(* fraction of evaluated matching records whose predicted and actual       *)
(* changes have the same three-valued sign (rounded to two decimals).      *)
C9_DirectionIsSignAgreement ==
    \A horizon \in HorizonFilters :
        LET stats == GetAccuracyStats(ledger, None, horizon)
            evaluated == { i \in Matching(None, horizon) : ledger[i].accuracy_evaluated }
            agree == { i \in evaluated :
                         Sign(ledger[i].predicted_change_pct)
                             = Sign(Val(ledger[i].actual_change_pct)) }
        IN  evaluated # {} =>
                stats.correct_direction_pct =
                    Some(RoundHalfEven(Cardinality(agree) * 10000, Cardinality(evaluated)))

(* C10: get_accuracy_by_horizon has exactly one row for each horizon label *)
(* of an evaluated record and no other row, and the row of horizon h       *)
(* carries the mean, median, min and max error, the evaluated count and    *)
(* the directional accuracy of get_accuracy_stats(horizon = h).            *)
C10_ByHorizonMatchesStats ==
    LET table == GetAccuracyByHorizon(ledger)
        labels == { ledger[i].horizon :
                      i \in { j \in 1..Len(ledger) : ledger[j].accuracy_evaluated } }
    IN  /\ { row.Orizzonte : row \in table } = labels
        /\ Cardinality(table) = Cardinality(labels)
        /\ \A row \in table :
              LET stats == GetAccuracyStats(ledger, None, Some(row.Orizzonte))
              IN  /\ stats.average_error_pct = Some(row.Errore_Medio)
                  /\ stats.median_error_pct = Some(row.Errore_Mediano)
                  /\ stats.best_prediction_error = Some(row.Miglior_Errore)
                  /\ stats.worst_prediction_error = Some(row.Peggior_Errore)
                  /\ stats.evaluated_predictions = row.N_Previsioni
                  /\ stats.correct_direction_pct = Some(row.Direzione_Corretta)

(* get_accuracy_by_horizon has just returned two rows whose directional    *)
(* accuracies differ                                                        *)
C10_Witness ==
    /\ ret.op = "get_accuracy_by_horizon"
    /\ \E r1, r2 \in ret.value :
          /\ r1.Orizzonte # r2.Orizzonte
          /\ r1.Direzione_Corretta # r2.Direzione_Corretta

-----------------------------------------------------------------------------
(* History of predictions *)

(* The ledger rows a history query is about: those of the symbol when a    *)
(* symbol is named (the empty string names none), else all of them         *)
HistoryMatching(symbol) ==
    { i \in 1..Len(ledger) :
        (symbol # None /\ Val(symbol) # "") => ledger[i].symbol = Val(symbol) }

(* out holds rows of the ledger at distinct positions among matching, and  *)
(* no row left out is more recent than a row of out                        *)
MostRecentOf(out, matching) ==
    \E f \in [1..Len(out) -> matching] :
        /\ \A i, j \in 1..Len(out) : i # j => f[i] # f[j]
        /\ \A i \in 1..Len(out) : out[i] = ledger[f[i]]
        /\ \A k \in matching \ { f[i] : i \in 1..Len(out) } :
              \A i \in 1..Len(out) :
                  ledger[k].prediction_timestamp <= out[i].prediction_timestamp

(* C11: get_predictions_history(symbol, limit), limit >= 0, returns at     *)
(* most limit records, all of the requested symbol when one is given, in   *)
(* descending order of prediction_timestamp; they are the limit most       *)
(* recent matching records (all of them when fewer match); the ledger is   *)
(* not modified.                                                           *)
C11_HistoryIsLatestMatching ==
    [][ ret'.op = "get_predictions_history" =>
            LET symbol == ret'.symbol
                limit == ret'.limit
                out == ret'.value
                matching == HistoryMatching(symbol)
            IN  /\ Len(out) <= limit
                /\ Len(out) = IF limit < Cardinality(matching)
                              THEN limit ELSE Cardinality(matching)
                /\ (symbol # None /\ Val(symbol) # "") =>
                      \A i \in 1..Len(out) : out[i].symbol = Val(symbol)
                /\ \A i, j \in 1..Len(out) :
                      i < j => out[i].prediction_timestamp >= out[j].prediction_timestamp
                /\ MostRecentOf(out, matching)
                /\ ledger' = ledger ]_vars

(* A history query has just returned the later of two records of one       *)
(* symbol logged at different times, the limit cutting the earlier one off *)
C11_Witness ==
    /\ ret.op = "get_predictions_history"
    /\ Len(ledger) = 2
    /\ ledger[1].symbol = ledger[2].symbol
    /\ ledger[1].prediction_timestamp < ledger[2].prediction_timestamp
    /\ ret.value = <<ledger[2]>>

-----------------------------------------------------------------------------
(* Trained model state of the forecaster *)

(* The rows train asks for: lookback + 100 *)
EnoughRows(df) == Len(df) >= DefaultLookback + 100

(* C12: predict on a predictor that no train call has marked trained       *)
(* (is_trained is false: it is set by a train call returning true and by   *)
(* nothing else) returns the empty result and leaves scaler, both model    *)
(* slots and is_trained unchanged.                                         *)
C12_UntrainedPredictIsEmptyNoOp ==
    [][ (ret'.op = "predict" /\ ~is_trained) =>
          /\ DOMAIN ret'.value = {}
          /\ scaler' = scaler
          /\ prophet_model' = prophet_model
          /\ rf_model' = rf_model
          /\ is_trained' = is_trained ]_vars

(* predict has just returned the empty result on an untrained predictor,   *)
(* given a frame of bars                                                   *)
C12_Witness ==
    /\ ret.op = "predict"
    /\ ret.df # <<>>
    /\ DOMAIN ret.value = {}
    /\ ~is_trained
    /\ scaler = None

(* C13: train with no bars or with fewer than lookback + 100 rows returns  *)
(* false and leaves the scaler, both model slots and is_trained exactly as *)
(* they were, also on a predictor trained earlier.                         *)
C13_ShortTrainIsNoOp ==
    [][ (ret'.op = "train" /\ ~EnoughRows(ret'.df)) =>
          /\ ret'.value = FALSE
          /\ scaler' = scaler
          /\ prophet_model' = prophet_model
          /\ rf_model' = rf_model
          /\ is_trained' = is_trained ]_vars

(* train has just refused a frame one row short on a predictor that still  *)
(* holds both models of an earlier training                                *)
C13_Witness ==
    /\ ret.op = "train"
    /\ Len(ret.df) = DefaultLookback + 99
    /\ ret.value = FALSE
    /\ is_trained
    /\ prophet_model # None
    /\ rf_model # None
    /\ Val(prophet_model).history # ret.df

C15_SlotsFollowThisFit ==
    [][ (ret'.op = "train" /\ ret'.value) =>
          LET fits == Val(ret'.fits)
          IN  /\ (prophet_model' # None) = fits.prophet
              /\ (rf_model' # None) = fits.random_forest
              /\ fits.prophet => Val(prophet_model').history = ret'.df
              /\ fits.random_forest =>
                    Val(rf_model').n_samples = Len(ret'.df) - DefaultLookback ]_vars

(* train has just passed the data checks with the seasonal fit failed and  *)
(* the regression fit succeeded                                            *)
C15_Witness ==
    /\ ret.op = "train"
    /\ ret.value = TRUE
    /\ Val(ret.fits) = [ prophet |-> FALSE, random_forest |-> TRUE ]
    /\ prophet_model = None
    /\ rf_model # None

-----------------------------------------------------------------------------
(* Prediction *)

(* C16: predict does not modify the trained model state: after a predict   *)
(* call the scaler, the seasonal model, the regression model and           *)
(* is_trained are what they were before it, that is what the last train    *)
(* call left.                                                              *)
C16_PredictLeavesTrainedState ==
    [][ ret'.op = "predict" =>
          /\ scaler' = scaler
          /\ prophet_model' = prophet_model
          /\ rf_model' = rf_model
          /\ is_trained' = is_trained ]_vars

(* The forecast values of the two branches, in price units, and their      *)
(* blend 0.6 * seasonal + 0.4 * regression                                 *)
SeasonalValues(prophet_pred) ==
    [ k \in 1..Len(Val(prophet_pred)) |-> Val(prophet_pred)[k].yhat ]

RegressionValues(rf_pred, fitted) ==
    [ k \in 1..Len(Val(rf_pred)) |-> InverseTransform(fitted, Val(rf_pred)[k]) ]

Blend(seasonal, regression) ==
    [ k \in 1..Len(seasonal) |-> (6 * seasonal[k] + 4 * regression[k]) \div 10 ]

(* lastClose * sentimentWeight * 0.02, zero for a zero weight *)
FlatAdjustment(df, sentiment_weight) ==
    (df[Len(df)] * sentiment_weight * 2) \div (100 * WeightUnit)

(* C17: when both models were fitted by train, predict is given at least   *)
(* lookback rows and the seasonal forecast is there, the regression        *)
(* forecast is made too and the result is the elementwise blend            *)
(* 0.6 * seasonal + 0.4 * regression (before the sentiment adjustment),    *)
(* with model_weights recording prophet = 0.6 and random_forest = 0.4.     *)
C17_BothFittedBlend ==
    [][ ( /\ ret'.op = "predict"
          /\ is_trained
          /\ prophet_model # None
          /\ rf_model # None
          /\ Len(ret'.df) >= DefaultLookback
          /\ ret'.prophet_pred # None ) =>
            /\ ret'.rf_pred # None
            /\ { <<"prophet", 6>>, <<"random_forest", 4>> } \subseteq ret'.value.model_weights
            /\ LET blend == Blend(SeasonalValues(ret'.prophet_pred),
                                  RegressionValues(ret'.rf_pred, Val(scaler)))
               IN  ret'.value.predictions =
                       [ k \in 1..Len(blend) |->
                           blend[k] + FlatAdjustment(ret'.df, ret'.sentiment_weight) ]
      ]_vars

(* C18: on a trained predictor, when exactly one branch produced a         *)
(* forecast, predict returns that forecast alone with weight 1.0 and       *)
(* stepCount predicted prices; when neither did, it returns the empty      *)
(* result.                                                                 *)
C18_SingleBranchOrEmpty ==
    [][ (ret'.op = "predict" /\ is_trained) =>
          LET seasonal == ret'.prophet_pred # None
              regression == ret'.rf_pred # None
              stepCount == IF ret'.hours = 0 THEN ret'.days
                           ELSE Max2(1, ret'.hours \div 24)
          IN  /\ (seasonal /\ ~regression) =>
                    /\ ret'.value.predictions = SeasonalValues(ret'.prophet_pred)
                    /\ ret'.value.model_weights = { <<"prophet", 10>> }
                    /\ Len(ret'.value.predictions) = stepCount
              /\ (regression /\ ~seasonal) =>
                    /\ ret'.value.predictions =
                          RegressionValues(ret'.rf_pred, Val(scaler))
                    /\ ret'.value.model_weights = { <<"random_forest", 10>> }
                    /\ Len(ret'.value.predictions) = stepCount
              /\ (~seasonal /\ ~regression) => DOMAIN ret'.value = {} ]_vars

(* The combination of the branches that produced a forecast *)
ModelCombination(prophet_pred, rf_pred, fitted) ==
    IF prophet_pred # None /\ rf_pred # None
    THEN Blend(SeasonalValues(prophet_pred), RegressionValues(rf_pred, fitted))
    ELSE IF prophet_pred # None THEN SeasonalValues(prophet_pred)
    ELSE RegressionValues(rf_pred, fitted)

(* C19: whenever predict returns a non-empty prediction series and the     *)
(* sentiment weight is not zero, every predicted step is the model         *)
(* combination's value plus lastClose * sentimentWeight * 0.02, whichever  *)
(* branches produced the forecast.                                         *)
C19_AdjustmentOnEveryStep ==
    [][ ( /\ ret'.op = "predict"
          /\ DOMAIN ret'.value # {}
          /\ ret'.sentiment_weight # 0 ) =>
            LET out == ret'.value.predictions
                combination == ModelCombination(ret'.prophet_pred, ret'.rf_pred,
                                                Val(scaler))
            IN  out # <<>> =>
                  \A k \in 1..Len(out) :
                      out[k] = combination[k]
                                 + FlatAdjustment(ret'.df, ret'.sentiment_weight) ]_vars

-----------------------------------------------------------------------------
(* Properties of the horizon resolution and of the result's lengths *)

(* C21: predict resolves the horizon as stepCount = max(1, floor(hours /   *)
(* 24)) with label "{hours}h" if hours > 0, else stepCount = days with     *)
(* label "{days}d"; every non-empty result has exactly stepCount predicted *)
(* prices, and its confidence_lower and confidence_upper sequences are     *)
(* either both empty or both of length stepCount.                          *)
C21_HorizonAndLengths ==
    [][ (ret'.op = "predict" /\ DOMAIN ret'.value # {}) =>
          LET stepCount == IF ret'.hours > 0 THEN Max2(1, ret'.hours \div 24)
                           ELSE ret'.days
              label == IF ret'.hours > 0 THEN FormatInt(ret'.hours) \o <<"h">>
                       ELSE FormatInt(ret'.days) \o <<"d">>
              lower == Len(ret'.value.confidence_lower)
              upper == Len(ret'.value.confidence_upper)
          IN  /\ ret'.value.horizon = label
              /\ Len(ret'.value.predictions) = stepCount
              /\ \/ lower = 0 /\ upper = 0
                 \/ lower = stepCount /\ upper = stepCount ]_vars

-----------------------------------------------------------------------------
(* The feature builder on its own: prepare_data called with frames of up   *)
(* to MaxFrameRows rows of every shape, with the frames train accepts, and *)
(* with short and default lookbacks                                        *)

MaxFrameRows == 3

PrepareDataCall(df, lookback) ==
    /\ IF PrepareDataRaises(df) # {}
       THEN \E kind \in PrepareDataRaises(df) :
               /\ ret' = [ op |-> "prepare_data", df |-> df, lookback |-> lookback,
                           raised |-> kind ]
               /\ scaler' = ScalerAfterRaise(scaler, kind)
       ELSE LET prepared == PrepareData(df, lookback)
            IN  /\ ret' = [ op |-> "prepare_data", df |-> df, lookback |-> lookback,
                            X |-> prepared.X, y |-> prepared.y ]
                /\ scaler' = prepared.scaler
    /\ UNCHANGED <<ledger, now, prophet_model, rf_model, is_trained, fileVars, session>>

FrameCloses == { Price(100, 0), Price(101, 0), Price(99, 2) }

PrepareFrames ==
    UNION { [1..n -> FrameCloses] : n \in 0..MaxFrameRows } \cup { Bars(102), Bars(160) }

PrepareLookbacks == { 1, 2, DefaultLookback }

NextPrepare ==
    \E df \in PrepareFrames, lookback \in PrepareLookbacks : PrepareDataCall(df, lookback)

SpecPrepare == Init /\ [][NextPrepare]_vars

(* C22: prepare_data on n rows with lookback L returns exactly max(0, n -  *)
(* L) windows and the same number of targets; window k (from 0) is the     *)
(* scaled rows [k, k + L) in order and target k the scaled close of row    *)
(* k + L; n = L + 100 gives at least 100 windows and n < L + 1 gives empty *)
(* output.                                                                 *)
C22_WindowsAndTargets ==
    [][ ret'.op = "prepare_data" =>
          LET df == ret'.df
              n == Len(df)
              L == ret'.lookback
              count == Max2(0, n - L)
          IN  /\ "raised" \notin DOMAIN ret'
              /\ Len(ret'.X) = count
              /\ Len(ret'.y) = count
              /\ \A k \in 0..(count - 1) :
                    /\ Len(ret'.X[k + 1]) = L
                    /\ \A j \in 1..L :
                          ret'.X[k + 1][j] = Transform(Val(scaler'), df[k + j])
                    /\ ret'.y[k + 1] = Transform(Val(scaler'), df[k + L + 1])
              /\ n = L + 100 => count >= 100
              /\ n < L + 1 => (ret'.X = <<>> /\ ret'.y = <<>>) ]_vars

-----------------------------------------------------------------------------
(* Sentiment aggregation (src/utils/sentiment_analyzer.py)                 *)
(*                                                                         *)
(* An article is identified by the polarity analyze_text computes for its  *)
(* text, in units of 1 / PolarityUnit.  Rounded polarities and scores are  *)
(* in units of 1 / ScoreUnit.  get_sentiment_weight multiplies a score, a  *)
(* number of twentieths and a default weight in tenths: its result is in   *)
(* units of 1 / (ScoreUnit * FullConfidenceArticles * WeightUnit).         *)

PolarityUnit == 10000
ScoreUnit == 1000
FullConfidenceArticles == 20

(* round(n / d, 3) in thousandths, d > 0 *)
Round3(n, d) ==
    IF n < 0 THEN 0 - RoundHalfEven((0 - n) * ScoreUnit, d)
    ELSE RoundHalfEven(n * ScoreUnit, d)

(* analyze_text: the classification of the polarity and its rounding *)
AnalyzeText(polarity) ==
    [ polarity |-> Round3(polarity, PolarityUnit),
      classification |-> IF 10 * polarity > PolarityUnit THEN "positive"
                         ELSE IF 10 * polarity < 0 - PolarityUnit THEN "negative"
                         ELSE "neutral" ]

(* classifications[c] after the loop *)
CountOf(sentiments, c) ==
    Cardinality({ i \in 1..Len(sentiments) : sentiments[i].classification = c })

(* _get_sentiment_trend of the score n / d *)
GetSentimentTrend(n, d) ==
    IF 10 * n > 3 * d THEN "Very Positive"
    ELSE IF 10 * n > d THEN "Positive"
    ELSE IF 10 * n < 0 - 3 * d THEN "Very Negative"
    ELSE IF 10 * n < 0 - d THEN "Negative"
    ELSE "Neutral"

(* Variant: the score taken over the articles that are not neutral *)
SentimentScoreOverClassified(positive, negative, total) ==
    IF positive + negative > 0
    THEN Round3(positive - negative, positive + negative) ELSE 0

(* round((positive - negative) / total, 3), total > 0 *)
SentimentScore(positive, negative, total) == Round3(positive - negative, total)

AnalyzeNewsList(news_articles) ==
    IF news_articles = <<>>
    THEN [ avg_sentiment |-> 0, sentiment_score |-> 0, positive_count |-> 0,
           negative_count |-> 0, neutral_count |-> 0, total_articles |-> 0,
           sentiment_trend |-> "No Data" ]
    ELSE LET sentiments == [ i \in 1..Len(news_articles) |-> AnalyzeText(news_articles[i]) ]
             positive == CountOf(sentiments, "positive")
             negative == CountOf(sentiments, "negative")
             total == Len(news_articles)
         IN  [ avg_sentiment |->
                   Round3(SumSeq([ i \in 1..total |-> sentiments[i].polarity ]),
                          total * ScoreUnit),
               sentiment_score |-> SentimentScore(positive, negative, total),
               positive_count |-> positive,
               negative_count |-> negative,
               neutral_count |-> CountOf(sentiments, "neutral"),
               total_articles |-> total,
               sentiment_trend |-> GetSentimentTrend(positive - negative, total) ]

(* Variant: the confidence multiplier is not capped at 1 *)
GetSentimentWeightUncapped(news_sentiment, default_weight) ==
    IF news_sentiment = None \/ Val(news_sentiment).total_articles = 0 THEN 0
    ELSE Val(news_sentiment).sentiment_score * Val(news_sentiment).total_articles
            * default_weight

(* get_sentiment_weight: sentiment_score * min(article_count / 20, 1.0) *  *)
(* default_weight, or 0.0 without a summary or without articles            *)
GetSentimentWeight(news_sentiment, default_weight) ==
    IF news_sentiment = None \/ Val(news_sentiment).total_articles = 0 THEN 0
    ELSE LET article_count == Val(news_sentiment).total_articles
             confidence_multiplier ==
                 IF article_count < FullConfidenceArticles THEN article_count
                 ELSE FullConfidenceArticles
         IN  Val(news_sentiment).sentiment_score * confidence_multiplier * default_weight

AnalyzeNews(news_articles) ==
    /\ ret' = [ op |-> "analyze_news_list", news_articles |-> news_articles,
                value |-> AnalyzeNewsList(news_articles) ]
    /\ UNCHANGED <<ledger, now, predictorVars, fileVars, session>>

SentimentWeight(news_sentiment, default_weight) ==
    /\ ret' = [ op |-> "get_sentiment_weight", news_sentiment |-> news_sentiment,
                default_weight |-> default_weight,
                value |-> GetSentimentWeight(news_sentiment, default_weight) ]
    /\ UNCHANGED <<ledger, now, predictorVars, fileVars, session>>

(* Batches of up to MaxArticles articles: none, one or all of them        *)
(* clearly positive, none, one or all clearly negative, the rest without   *)
(* polarity; and all the batches of two polarities around the              *)
(* classification thresholds                                               *)
MaxArticles == 21

Repeat(v, n) == [ i \in 1..n |-> v ]

Batch(positive, negative, neutral) ==
    Repeat(PolarityUnit \div 2, positive) \o Repeat(0 - PolarityUnit \div 2, negative)
        \o Repeat(0, neutral)

ThresholdPolarities == { 0 - 1004, 0 - 1000, 1000, 1004 }

NewsBatches ==
    { Batch(c[2], c[3], c[1] - c[2] - c[3]) :
        c \in { t \in (0..MaxArticles) \X (0..MaxArticles) \X (0..MaxArticles) :
                  /\ t[2] \in { 0, 1, t[1] }
                  /\ t[3] \in { 0, 1, t[1] }
                  /\ t[2] + t[3] <= t[1] } }
    \cup [1..2 -> ThresholdPolarities]

DefaultWeights == { 0, 3, WeightUnit }

(* The summaries get_sentiment_weight is called with: none, or the one     *)
(* analyze_news_list has just returned                                     *)
SummariesAtHand ==
    { None } \cup (IF ret.op = "analyze_news_list" THEN { Some(ret.value) } ELSE {})

NextSentiment ==
    \/ \E news_articles \in NewsBatches : AnalyzeNews(news_articles)
    \/ \E news_sentiment \in SummariesAtHand, default_weight \in DefaultWeights :
          SentimentWeight(news_sentiment, default_weight)

SpecSentiment == Init /\ [][NextSentiment]_vars

(* C23 as stated: the counts add up to total_articles, which is the number *)
(* of items, and sentiment_score equals (positive_count - negative_count)  *)
(* / total_articles exactly and lies in [-1, 1]; for the empty batch all   *)
(* counts and the score are 0 and the trend is "No Data".                  *)
C23_ExactScore ==
    [][ ret'.op = "analyze_news_list" =>
          LET v == ret'.value
          IN  /\ v.positive_count + v.negative_count + v.neutral_count = v.total_articles
              /\ v.total_articles = Len(ret'.news_articles)
              /\ v.sentiment_score * v.total_articles
                    = (v.positive_count - v.negative_count) * ScoreUnit
              /\ v.sentiment_score >= 0 - ScoreUnit /\ v.sentiment_score <= ScoreUnit
              /\ ret'.news_articles = <<>> =>
                    /\ v.positive_count = 0 /\ v.negative_count = 0
                    /\ v.neutral_count = 0 /\ v.total_articles = 0
                    /\ v.sentiment_score = 0 /\ v.sentiment_trend = "No Data" ]_vars

(* The multiple of 1 / ScoreUnit nearest to n / d *)
IsNearestThousandth(v, n, d) ==
    2 * AbsI(v * d - n * ScoreUnit) <= d

(* C23: for every batch of news items, analyze_news_list returns           *)
(* positive_count + negative_count + neutral_count = total_articles =      *)
(* number of items, and sentiment_score is (positive_count -               *)
(* negative_count) / total_articles rounded to three decimals and lies in  *)
(* [-1, 1]; for the empty batch all counts and the score are 0 and the     *)
(* trend is "No Data".                                                     *)
C23_RoundedScore ==
    [][ ret'.op = "analyze_news_list" =>
          LET v == ret'.value
          IN  /\ v.positive_count + v.negative_count + v.neutral_count = v.total_articles
              /\ v.total_articles = Len(ret'.news_articles)
              /\ v.total_articles > 0 =>
                    IsNearestThousandth(v.sentiment_score,
                        v.positive_count - v.negative_count, v.total_articles)
              /\ v.sentiment_score >= 0 - ScoreUnit /\ v.sentiment_score <= ScoreUnit
              /\ ret'.news_articles = <<>> =>
                    /\ v.positive_count = 0 /\ v.negative_count = 0
                    /\ v.neutral_count = 0 /\ v.total_articles = 0
                    /\ v.sentiment_score = 0 /\ v.sentiment_trend = "No Data" ]_vars

(* A batch of three items, one positive and two neutral: the score 1/3 is  *)
(* returned as 0.333                                                       *)
C23_Witness ==
    /\ ret.op = "analyze_news_list"
    /\ ret.value.total_articles = 3
    /\ ret.value.positive_count = 1
    /\ ret.value.neutral_count = 2
    /\ ret.value.sentiment_score = 333

(* The summary with the same score and another number of articles *)
WithArticles(news_sentiment, total) ==
    Some([ Val(news_sentiment) EXCEPT !.total_articles = total ])

-----------------------------------------------------------------------------
(* The core operations on their failure paths: a zero price and horizon    *)
(* strings that do not parse, an empty price map, reads of an empty        *)
(* ledger, and empty bar tables                                            *)

FailureHorizons == { <<"2", "h">>, <<"2", "w">>, <<"2", "h", "d">> }

EmptyAndShortBars == { <<>>, Bars(30) }

NextFailure ==
    \/ \E c \in ZeroAndCurrentPrices, h \in FailureHorizons :
          LogPrediction("X", STOCK_NAMES("X"), c, h, Price(105, 1))
    \/ \E cp \in PriceMaps({"X"}, {Price(103, 0)}) : UpdateActualValues(cp)
    \/ AccuracyStats(None, None)
    \/ AccuracyByHorizon
    \/ PredictionsHistory(None, 2)
    \/ \E df \in { <<>>, Bars(160) }, fits \in BOOLEAN : Train(df, fits, fits)
    \/ \E df \in EmptyAndShortBars : Predict(df, 0, 1, 0)
    \/ Tick

SpecFailure == Init /\ [][NextFailure]_vars

CoreOperations ==
    { "train", "predict", "log_prediction", "update_actual_values",
      "get_accuracy_stats", "get_accuracy_by_horizon", "get_predictions_history" }

(* C25: no core operation propagates an exception to its caller: train,    *)
(* predict, log_prediction, update_actual_values, get_accuracy_stats,      *)
(* get_accuracy_by_horizon and get_predictions_history each return an      *)
(* empty or neutral value on every failure path, also when given empty     *)
(* bars or no data.                                                        *)
C25_NoExceptionPropagates ==
    [][ ret'.op \in CoreOperations => "raised" \notin DOMAIN ret' ]_vars

-----------------------------------------------------------------------------
(* The collector (src/collector/collect_data.py), whose DATA_DIR is the    *)
(* directory the ledger's file is in.  The file exists once a              *)
(* PredictionLogger has been constructed, so the collector takes its       *)
(* read-concat-rewrite branch.  A row holds the cells that are not NaN.    *)

(* df_new: one row with the columns timestamp, symbol, actual_price *)
QuoteColumns == << "timestamp", "symbol", "actual_price" >>

QuoteRow(quote) ==
    [ timestamp |-> quote.timestamp, symbol |-> quote.symbol,
      actual_price |-> Some(quote.current_price) ]

(* update_predictions_history(quote): the file is rewritten with the       *)
(* quote's row concatenated to the rows read                               *)
UpdatePredictionsHistory(quote) ==
    /\ Len(ledger) < MaxRecords
    /\ columns' = ConcatColumns(columns, QuoteColumns)
    /\ ledger' = Append(ledger, QuoteRow(quote))
    /\ ret' = [ op |-> "update_predictions_history", quote |-> quote ]
    /\ UNCHANGED <<now, predictorVars, inflight, session>>

(* The quotes the collection loop stores at the current time *)
Quotes ==
    { [ timestamp |-> now, symbol |-> s, current_price |-> p ] :
        s \in Symbols, p \in ActualPriceInputs }

NextCollector ==
    \/ \E s \in Symbols, h \in HorizonInputs :
          LogPrediction(s, STOCK_NAMES(s), Price(100, 0), h, Price(105, 1))
    \/ \E cp \in PriceMaps(Symbols, {Price(103, 0)}) : UpdateActualValues(cp)
    \/ \E quote \in Quotes : UpdatePredictionsHistory(quote)
    \/ Tick

SpecCollector == Init /\ [][NextCollector]_vars

(* C26: after any sequence of log_prediction, update_actual_values and the *)
(* collector's update_predictions_history, the ledger file has exactly the *)
(* twelve Prediction Record columns in their original order, every row is  *)
(* a Prediction Record, and no component other than the ledger has         *)
(* rewritten or added rows.                                                *)
C26_LedgerFileKeepsItsShape ==
    [][ /\ columns' = PredictionColumns
        /\ \A i \in 1..Len(ledger') :
              DOMAIN ledger'[i] = { PredictionColumns[c] : c \in 1..Len(PredictionColumns) }
        /\ ret'.op = "update_predictions_history" => ledger' = ledger ]_vars

-----------------------------------------------------------------------------
(* One iteration of the loop of predict_rf on its own.  A window is the    *)
(* sequence of its rows, oldest first, and a row the sequence of its       *)
(* scaled feature values, the close first.                                 *)

MaxWindowRows == 3

(* np.roll(current_sequence, -1) without an axis: the array is flattened,  *)
(* shifted by one element with wrap-around, and given its shape back       *)
RollFlattened(current_sequence) ==
    LET rows == Len(current_sequence)
        features == Len(current_sequence[1])
        size == rows * features
        flat == [ i \in 1..size |->
                    current_sequence[((i - 1) \div features) + 1][((i - 1) % features) + 1] ]
        rolled == [ i \in 1..size |-> flat[(i % size) + 1] ]
    IN  [ r \in 1..rows |-> [ c \in 1..features |-> rolled[(r - 1) * features + c] ] ]

(* current_sequence = np.roll(current_sequence, -1);                       *)
(* current_sequence[-1] = pred, which fills the whole last row             *)
RollWindow(current_sequence, pred) ==
    LET rolled == RollFlattened(current_sequence)
        rows == Len(current_sequence)
    IN  [ rolled EXCEPT ![rows] = [ c \in 1..Len(rolled[rows]) |-> pred ] ]

PredictRfStep(current_sequence, pred) ==
    /\ ret' = [ op |-> "predict_rf_step", current_sequence |-> current_sequence,
                pred |-> pred, value |-> RollWindow(current_sequence, pred) ]
    /\ UNCHANGED <<ledger, now, predictorVars, fileVars, session>>

FeatureCounts == { 1, 2 }

ScaledValues == { 0, ScaleUnit }

Windows ==
    UNION { [1..rows -> [1..features -> ScaledValues]] :
              rows \in 1..MaxWindowRows, features \in FeatureCounts }

NextRoll ==
    \E current_sequence \in Windows, pred \in RfOutputs :
        PredictRfStep(current_sequence, pred)

SpecRoll == Init /\ [][NextRoll]_vars

(* C27: each iteration of the regression branch turns the current window   *)
(* of lookback feature rows into the window made of its rows 2..lookback   *)
(* followed by one new last row carrying the predicted scaled close: the   *)
(* oldest row is dropped and every remaining row keeps its feature values  *)
(* and relative order.                                                     *)
C27_WindowSlidesByOneRow ==
    [][ ret'.op = "predict_rf_step" =>
          LET old == ret'.current_sequence
              new == ret'.value
              lookback == Len(old)
          IN  /\ Len(new) = lookback
              /\ \A r \in 1..(lookback - 1) : new[r] = old[r + 1]
              /\ new[lookback][1] = ret'.pred ]_vars

-----------------------------------------------------------------------------
(* Deferred records *)

-----------------------------------------------------------------------------
(* The dashboard (src/app.py, class TradingDashboard): the first script    *)
(* run of a browser session.  The one StockPredictor of the dashboard      *)
(* object serves every stock.  The script is followed step by step: one    *)
(* step per stock of the loop of load_all_stocks_data (load_data and       *)
(* train_model), one per horizon of its inner loop (make_predictions), one *)
(* per horizon tab of run.  The data feed chooses each stock's bars; its   *)
(* quote is fixed and it has no news; a fitted seasonal model forecasts    *)
(* without raising.                                                        *)

(* get_active_stocks() *)
ActiveStocks == << "X", "Y" >>

(* The (hours, days) pairs of the horizons list and of the tabs *)
DashboardHorizons == << <<2, 0>>, <<0, 1>>, <<0, 3>>, <<0, 7>> >>

(* What get_historical_data may return for a stock: no bars, too few to    *)
(* train on, or enough                                                     *)
SymbolBars(symbol, n) ==
    [ i \in 1..n |-> (IF symbol = "X" THEN Price(100, 0) ELSE Price(50, 0)) + i * 1000 ]

HistoricalFrames(symbol) ==
    { <<>>, SymbolBars(symbol, 30), SymbolBars(symbol, 160) }

PredictorState ==
    [ scaler |-> scaler, prophet_model |-> prophet_model, rf_model |-> rf_model,
      is_trained |-> is_trained ]

(* The update_actual_values of load_data, on the rows read *)
ReconciledFrame(df, current_time, current_prices) ==
    LET updated == IF df = <<>> THEN {} ELSE RowsUpdated(df, current_time, current_prices)
    IN  [ i \in 1..Len(df) |->
            IF i \in updated THEN EvaluateRow(df[i], current_prices[df[i].symbol])
            ELSE df[i] ]

(* load_data(symbol): the cached entry while there is one; else the bars   *)
(* are fetched, nothing is stored if there are none, and otherwise past    *)
(* predictions are reconciled with the quote and the entry is stored       *)
LoadData(stock_data, led, symbol, hist_df) ==
    IF symbol \in DOMAIN stock_data \/ hist_df = <<>>
    THEN [ stock_data |-> stock_data, ledger |-> led ]
    ELSE LET quote == [ current_price |-> Price(100, 0) ]
             entry == [ historical |-> hist_df, quote |-> quote,
                        sentiment |-> AnalyzeNewsList(<<>>) ]
         IN  [ stock_data |-> [ t \in DOMAIN stock_data \cup { symbol } |->
                                  IF t = symbol THEN entry ELSE stock_data[t] ],
               ledger |-> ReconciledFrame(led, now,
                              [ t \in { symbol } |-> quote.current_price ]) ]

(* predictor.train(df) as a function of the predictor's fields *)
TrainOutcome(p, df, prophet_fits, rf_fits) ==
    IF InsufficientData(df, DefaultLookback)
    THEN [ predictor |-> p, value |-> FALSE ]
    ELSE LET prepared == PrepareData(df, DefaultLookback)
         IN  IF Len(prepared.X) = 0
             THEN [ predictor |-> [ p EXCEPT !.scaler = prepared.scaler ], value |-> FALSE ]
             ELSE [ predictor |->
                      [ scaler |-> prepared.scaler,
                        prophet_model |-> TrainProphet(p.prophet_model, df, prophet_fits),
                        rf_model |-> TrainRandomForest(p.rf_model, prepared.X,
                                                       prepared.y, rf_fits),
                        is_trained |-> TRUE ],
                    value |-> TRUE ]

(* train_model(symbol) *)
TrainModel(p, stock_data, symbol, prophet_fits, rf_fits) ==
    IF symbol \notin DOMAIN stock_data THEN [ predictor |-> p, value |-> FALSE ]
    ELSE TrainOutcome(p, stock_data[symbol].historical, prophet_fits, rf_fits)

(* The forecast of a fitted seasonal model *)
SteadyForecast(model, days) ==
    IF model = None THEN None
    ELSE Some([ k \in 1..days |->
                 [ yhat |-> Price(101, 0), yhat_lower |-> Price(99, 0),
                   yhat_upper |-> Price(103, 0) ] ])

(* predictor.predict(df, hours, days, sentiment_weight) on a frame with    *)
(* rows, as a function of the predictor's fields                           *)
PredictOutcome(p, df, hours, days, sentiment_weight) ==
    IF ~p.is_trained THEN [ predictor |-> p, value |-> EmptyResult ]
    ELSE LET total_days == TotalDays(hours, days)
             prepared == PrepareData(TailRows(df, PredictTailRows), DefaultLookback)
             prophet_pred == SteadyForecast(p.prophet_model, total_days)
             rf_pred == IF Len(prepared.X) > 0 /\ p.rf_model # None
                        THEN Some([ k \in 1..total_days |-> ScaleUnit \div 2 ])
                        ELSE None
         IN  [ predictor |-> [ p EXCEPT !.scaler = prepared.scaler ],
               value |-> Ensemble(df, hours, days, sentiment_weight, prophet_pred,
                                  rf_pred, Val(prepared.scaler)) ]

(* make_predictions(symbol, hours, days): None for a stock without data;   *)
(* else the prediction, which is logged when it has predicted prices       *)
MakePredictionsOutcome(p, led, stock_data, symbol, hours, days) ==
    IF symbol \notin DOMAIN stock_data
    THEN [ predictor |-> p, ledger |-> led, value |-> None ]
    ELSE LET data == stock_data[symbol]
             sentiment_weight ==
                 GetSentimentWeight(Some(data.sentiment), 3)
                     \div (ScoreUnit * FullConfidenceArticles)
             out == PredictOutcome(p, data.historical, hours, days, sentiment_weight)
             predictions == out.value
             logged == /\ DOMAIN predictions # {}
                       /\ Len(predictions.predictions) > 0
             horizon == HorizonLabel(hours, days)
         IN  [ predictor |-> out.predictor,
               ledger |->
                   IF logged /\ LogOutcome(data.quote.current_price, horizon) = "info"
                   THEN Append(led,
                            PredictionRecord(symbol, STOCK_NAMES(symbol),
                                data.quote.current_price, horizon,
                                predictions.predictions[Len(predictions.predictions)],
                                now + HorizonOffset(horizon).hours))
                   ELSE led,
               value |-> Some(predictions) ]

SetPredictor(p) ==
    /\ scaler' = p.scaler
    /\ prophet_model' = p.prophet_model
    /\ rf_model' = p.rf_model
    /\ is_trained' = p.is_trained

At(phase, stock, horizon) == [ phase |-> phase, stock |-> stock, horizon |-> horizon ]

(* The sidebar's stock selector, before the script body runs *)
SelectStock(symbol) ==
    /\ session.pc.phase = "start"
    /\ session' = [ session EXCEPT !.selected_stock = symbol ]
    /\ ret' = [ op |-> "select_stock", symbol |-> symbol ]
    /\ UNCHANGED <<ledger, now, predictorVars, fileVars>>

(* run: if not all_stocks_loaded, load_all_stocks_data starts *)
RunStart ==
    /\ session.pc.phase = "start"
    /\ ~session.all_stocks_loaded
    /\ session' = [ session EXCEPT !.pc = At("load", 1, 0) ]
    /\ ret' = [ op |-> "run" ]
    /\ UNCHANGED <<ledger, now, predictorVars, fileVars>>

(* One pass of the loop over the active stocks up to its inner loop:       *)
(* load_data, then train_model; the stock is skipped when it has no data   *)
(* or the training fails                                                   *)
LoadStock(hist_df, prophet_fits, rf_fits) ==
    /\ session.pc.phase = "load"
    /\ session.pc.stock <= Len(ActiveStocks)
    /\ LET symbol == ActiveStocks[session.pc.stock]
           loaded == LoadData(session.stock_data, ledger, symbol, hist_df)
           trained == TrainModel(PredictorState, loaded.stock_data, symbol,
                                 prophet_fits, rf_fits)
       IN  /\ hist_df \in HistoricalFrames(symbol)
           /\ ledger' = loaded.ledger
           /\ SetPredictor(trained.predictor)
           /\ session' = [ session EXCEPT
                             !.stock_data = loaded.stock_data,
                             !.pc = IF trained.value
                                    THEN At("predict", session.pc.stock, 1)
                                    ELSE At("load", session.pc.stock + 1, 0) ]
           /\ ret' = [ op |-> "train_model", symbol |-> symbol, value |-> trained.value ]
    /\ UNCHANGED <<now, fileVars>>

(* One pass of the inner loop over the horizons *)
LoadPredict ==
    /\ session.pc.phase = "predict"
    /\ LET symbol == ActiveStocks[session.pc.stock]
           h == DashboardHorizons[session.pc.horizon]
           made == MakePredictionsOutcome(PredictorState, ledger, session.stock_data,
                                          symbol, h[1], h[2])
       IN  /\ ledger' = made.ledger
           /\ SetPredictor(made.predictor)
           /\ session' = [ session EXCEPT
                             !.pc = IF session.pc.horizon < Len(DashboardHorizons)
                                    THEN At("predict", session.pc.stock,
                                            session.pc.horizon + 1)
                                    ELSE At("load", session.pc.stock + 1, 0) ]
           /\ ret' = [ op |-> "make_predictions", symbol |-> symbol, hours |-> h[1],
                       days |-> h[2], value |-> made.value,
                       prophet_model |-> prophet_model ]
    /\ UNCHANGED <<now, fileVars>>

(* The end of load_all_stocks_data, and run's load_data of the selected    *)
(* stock before the tabs                                                   *)
FinishLoad(hist_df) ==
    /\ session.pc.phase = "load"
    /\ session.pc.stock > Len(ActiveStocks)
    /\ hist_df \in HistoricalFrames(session.selected_stock)
    /\ LET loaded == LoadData(session.stock_data, ledger, session.selected_stock, hist_df)
       IN  /\ ledger' = loaded.ledger
           /\ session' = [ session EXCEPT !.stock_data = loaded.stock_data,
                                          !.all_stocks_loaded = TRUE,
                                          !.pc = At("tabs", 0, 1) ]
    /\ ret' = [ op |-> "load_all_stocks_data" ]
    /\ UNCHANGED <<now, predictorVars, fileVars>>

(* One horizon tab of run: train_model only if the predictor is not        *)
(* trained, then make_predictions for the selected stock.  The outcomes of *)
(* the fits matter only when the tab trains: otherwise one pair stands for *)
(* all                                                                     *)
HorizonTab(prophet_fits, rf_fits) ==
    /\ session.pc.phase = "tabs"
    /\ LET symbol == session.selected_stock
           h == DashboardHorizons[session.pc.horizon]
           trained == IF ~is_trained
                      THEN TrainModel(PredictorState, session.stock_data, symbol,
                                      prophet_fits, rf_fits)
                      ELSE [ predictor |-> PredictorState, value |-> TRUE ]
           made == MakePredictionsOutcome(trained.predictor, ledger,
                                          session.stock_data, symbol, h[1], h[2])
       IN  /\ is_trained => (prophet_fits /\ rf_fits)
           /\ IF trained.value
              THEN /\ ledger' = made.ledger
                   /\ SetPredictor(made.predictor)
                   /\ ret' = [ op |-> "make_predictions", symbol |-> symbol,
                               hours |-> h[1], days |-> h[2], value |-> made.value,
                               prophet_model |-> trained.predictor.prophet_model ]
              ELSE /\ ledger' = ledger
                   /\ SetPredictor(trained.predictor)
                   /\ ret' = [ op |-> "train_model", symbol |-> symbol, value |-> FALSE ]
           /\ session' = [ session EXCEPT
                             !.pc = IF session.pc.horizon < Len(DashboardHorizons)
                                    THEN At("tabs", 0, session.pc.horizon + 1)
                                    ELSE At("done", 0, 0) ]
    /\ UNCHANGED <<now, fileVars>>

NextDashboard ==
    \/ \E symbol \in Symbols : SelectStock(symbol)
    \/ RunStart
    \/ \E symbol \in Symbols : \E hist_df \in HistoricalFrames(symbol),
          prophet_fits \in BOOLEAN, rf_fits \in BOOLEAN :
          LoadStock(hist_df, prophet_fits, rf_fits)
    \/ LoadPredict
    \/ \E symbol \in Symbols : \E hist_df \in HistoricalFrames(symbol) :
          FinishLoad(hist_df)
    \/ \E prophet_fits \in BOOLEAN, rf_fits \in BOOLEAN : HorizonTab(prophet_fits, rf_fits)

SpecDashboard == Init /\ [][NextDashboard]_vars

(* C29: every prediction the dashboard logs or displays for symbol S was   *)
(* produced by the shared StockPredictor while its trained state came from *)
(* the most recent successful train on S's own bars: in any run of         *)
(* load_all_stocks_data followed by the per-horizon tabs of run,           *)
(* make_predictions(S) is never served by a model last trained on a        *)
(* different symbol.                                                       *)
C29_ServedByOwnModel ==
    [][ ( /\ ret'.op = "make_predictions"
          /\ ret'.value # None
          /\ DOMAIN Val(ret'.value) # {}
          /\ Val(ret'.value).predictions # <<>> ) =>
            /\ ret'.prophet_model # None
            /\ Val(ret'.prophet_model).history
                  = session'.stock_data[ret'.symbol].historical ]_vars

-----------------------------------------------------------------------------
(* Concurrent writers of predictions_history.csv.  A browser session's     *)
(* update_actual_values and the collector's update_predictions_history     *)
(* each read the whole file and later rewrite it from what they read; no   *)
(* lock is taken.  Between the two steps of one writer the other writers   *)
(* (and log_prediction of any session, which appends one line) may run.    *)

(* pd.read_csv and datetime.now() of update_actual_values *)
UpdateRead(w, current_prices) ==
    /\ inflight[w] = None
    /\ inflight' = [ inflight EXCEPT ![w] =
                       Some([ op |-> "update_actual_values", df |-> ledger,
                              columns |-> columns, current_time |-> now,
                              current_prices |-> current_prices ]) ]
    /\ ret' = [ op |-> "read_csv", writer |-> w ]
    /\ UNCHANGED <<ledger, now, predictorVars, columns, session>>

(* The loop of update_actual_values on the rows read, and df.to_csv if a   *)
(* row was updated                                                         *)
UpdateRewrite(w) ==
    /\ inflight[w] # None
    /\ Val(inflight[w]).op = "update_actual_values"
    /\ LET read == Val(inflight[w])
           updated_count == IF read.df = <<>> THEN 0
                            ELSE Cardinality(RowsUpdated(read.df, read.current_time,
                                                         read.current_prices))
       IN  /\ ledger' = IF updated_count > 0
                        THEN ReconciledFrame(read.df, read.current_time,
                                             read.current_prices)
                        ELSE ledger
           /\ columns' = IF updated_count > 0 THEN read.columns ELSE columns
           /\ ret' = [ op |-> "update_actual_values",
                       current_prices |-> read.current_prices,
                       value |-> updated_count ]
    /\ inflight' = [ inflight EXCEPT ![w] = None ]
    /\ UNCHANGED <<now, predictorVars, session>>

(* pd.read_csv of update_predictions_history *)
CollectorRead(w, quote) ==
    /\ inflight[w] = None
    /\ Len(ledger) < MaxRecords
    /\ inflight' = [ inflight EXCEPT ![w] =
                       Some([ op |-> "update_predictions_history", df |-> ledger,
                              columns |-> columns, quote |-> quote ]) ]
    /\ ret' = [ op |-> "read_csv", writer |-> w ]
    /\ UNCHANGED <<ledger, now, predictorVars, columns, session>>

(* pd.concat and df_combined.to_csv of update_predictions_history *)
CollectorRewrite(w) ==
    /\ inflight[w] # None
    /\ Val(inflight[w]).op = "update_predictions_history"
    /\ LET read == Val(inflight[w])
       IN  /\ ledger' = Append(read.df, QuoteRow(read.quote))
           /\ columns' = ConcatColumns(read.columns, QuoteColumns)
           /\ ret' = [ op |-> "update_predictions_history", quote |-> read.quote ]
    /\ inflight' = [ inflight EXCEPT ![w] = None ]
    /\ UNCHANGED <<now, predictorVars, session>>

NextWriters ==
    \/ \E s \in Symbols :
          LogPrediction(s, STOCK_NAMES(s), Price(100, 0), <<"2", "h">>, Price(105, 1))
    \/ \E cp \in PriceMaps(Symbols, {Price(103, 0)}) : UpdateRead("dashboard", cp)
    \/ UpdateRewrite("dashboard")
    \/ \E quote \in Quotes : CollectorRead("collector", quote)
    \/ CollectorRewrite("collector")
    \/ Tick

SpecWriters == Init /\ [][NextWriters]_vars

(* C30: no appended record is lost under interleaving: when a              *)
(* log_prediction append runs between the file read and the file rewrite   *)
(* of a concurrent update_actual_values (or of the collector's             *)
(* update_predictions_history), the appended record is still in the ledger *)
(* afterwards; every step leaves every record of the ledger in place with  *)
(* its prediction fields.                                                  *)
C30_NoAppendedRecordLost ==
    [][ \A i \in 1..Len(ledger) :
          "prediction_timestamp" \in DOMAIN ledger[i] =>
              /\ i <= Len(ledger')
              /\ "prediction_timestamp" \in DOMAIN ledger'[i]
              /\ PredictionFields(ledger'[i]) = PredictionFields(ledger[i]) ]_vars

====
